---- MODULE Spec2Model ----
(***************************************************************************)
(* URL extraction and normalisation engine of rspamd                       *)
(* (src/libserver/url.c): the character-class table, the mailto and web    *)
(* URI state machines, the TLD classifier with the numeric-host decoder,   *)
(* rspamd_url_parse and the extraction driver rspamd_url_text_extract.     *)
(*                                                                         *)
(* A byte is a string token: a printable ASCII byte is its one-character   *)
(* string, the other bytes are named ("NUL", "VT", "x60" for the backquote, *)
(* "x80" .. "xFF", ...).                                                   *)
(* A buffer is a sequence of bytes; pointers are 0-based offsets into it.  *)
(***************************************************************************)
EXTENDS Integers, Sequences, FiniteSets, TLC

VARIABLES pu, fu, scanner, jobs

vars == << pu, fu, scanner, jobs >>

(***************************************************************************)
(* Bytes                                                                   *)
(***************************************************************************)
NUL == "NUL"

HexSeq == << "0", "1", "2", "3", "4", "5", "6", "7", "8", "9", "A", "B", "C", "D", "E", "F" >>

\* the printable ASCII bytes, codes 32 .. 126
AsciiSeq == <<
    " ", "!", "\"", "#", "$", "%", "&", "'", "(", ")", "*", "+", ",", "-", ".", "/",
    "0", "1", "2", "3", "4", "5", "6", "7", "8", "9", ":", ";", "<", "=", ">", "?",
    "@", "A", "B", "C", "D", "E", "F", "G", "H", "I", "J", "K", "L", "M", "N", "O",
    "P", "Q", "R", "S", "T", "U", "V", "W", "X", "Y", "Z", "[", "\\", "]", "^", "_",
    "x60", "a", "b", "c", "d", "e", "f", "g", "h", "i", "j", "k", "l", "m", "n", "o",
    "p", "q", "r", "s", "t", "u", "v", "w", "x", "y", "z", "{", "|", "}", "~" >>

\* the control bytes, codes 0 .. 31
CtrlSeq == <<
    "NUL", "x01", "x02", "x03", "x04", "x05", "x06", "x07", "x08", "\t", "\n", "VT", "\f", "\r", "x0E", "x0F",
    "x10", "x11", "x12", "x13", "x14", "x15", "x16", "x17", "x18", "x19", "x1A", "x1B", "x1C", "x1D", "x1E", "x1F" >>

\* the byte with a given code, 0 .. 255
ByteOf(code) ==
    IF code < 32 THEN CtrlSeq[code + 1]
    ELSE IF code < 127 THEN AsciiSeq[code - 31]
    ELSE IF code = 127 THEN "x7F"
    ELSE "x" \o HexSeq[(code \div 16) + 1] \o HexSeq[(code % 16) + 1]

ByteSeq == [i \in 1..256 |-> ByteOf(i - 1)]

CodeOf(b) == (CHOOSE i \in 1..256 : ByteSeq[i] = b) - 1

HighBytes == { ByteSeq[i] : i \in 129..256 }

Digit == { "0", "1", "2", "3", "4", "5", "6", "7", "8", "9" }
Upper == { AsciiSeq[i] : i \in 34..59 }
Lower == { AsciiSeq[i] : i \in 66..91 }
Alpha == Upper \cup Lower
Alnum == Alpha \cup Digit
XDigit == Digit \cup { "a", "b", "c", "d", "e", "f", "A", "B", "C", "D", "E", "F" }

g_ascii_isalnum(c) == c \in Alnum
g_ascii_isdigit(c) == c \in Digit
g_ascii_isxdigit(c) == c \in XDigit
g_ascii_isspace(c) == c \in { "\t", "\n", "VT", "\f", "\r", " " }
g_ascii_isgraph(c) == \E i \in 2..95 : AsciiSeq[i] = c
g_ascii_tolower(c) == IF c \in Upper THEN ByteOf(CodeOf(c) + 32) ELSE c

\* the byte at 0-based offset i of buffer m; the byte after a C string is NUL
At(m, i) == IF i >= 0 /\ i < Len(m) THEN m[i + 1] ELSE NUL

\* the len bytes of m from 0-based offset off
Sub(m, off, len) == SubSeq(m, off + 1, off + len)

LowerSeq(s) == [i \in 1..Len(s) |-> g_ascii_tolower(s[i])]

(***************************************************************************)
(* url_scanner_table: the character classes                                *)
(***************************************************************************)
IS_LWSP == { "\t", "\n", "VT", "\f", "\r", " " }

IS_DOMAIN == Alnum \cup { "%", "-", ".", "\\", "^", "_" } \cup HighBytes

IS_URLSAFE ==
    Alnum \cup { "\"", "%", "-", ".", "<", ">", "\\", "^", "_", "x60", "{", "|", "}", "~" } \cup HighBytes

IS_MAILSAFE ==
    Alnum \cup { "!", "\"", "#", "$", "%", "'", "(", ")", "*", "+", ",", "-", ".", "/", ";", "<", ">",
                 "[", "\\", "]", "^", "_", "x60", "{", "|", "}", "~" }

IS_DOMAIN_END == { "\"", "/", ":", "<", ">", "?", "x60", "{", "|", "}", "~" }

is_lwsp(x) == x \in IS_LWSP
is_mailsafe(x) == x \in IS_MAILSAFE
is_domain(x) == x \in IS_DOMAIN
is_urlsafe(x) == x \in IS_URLSAFE

is_url_start(c) == c \in { "(", "{", "<", "'" }
is_url_end(c) == c \in { ")", "}", ">", "'" }


(***************************************************************************)
(* struct http_parser_url: the field table filled by the two parsers       *)
(***************************************************************************)
UF == { "UF_SCHEMA", "UF_HOST", "UF_PATH", "UF_QUERY", "UF_FRAGMENT", "UF_USERINFO" }

\* memset (u, 0, sizeof (*u))
ZeroU == [ fd |-> [f \in UF |-> [set |-> FALSE, off |-> 0, len |-> 0]], port |-> 0 ]

\* SET_U (u, field): len = p - c, off = c - str
SET_U(u, field, p, c, str) ==
    [u EXCEPT !.fd[field] = [set |-> TRUE, off |-> c - str, len |-> p - c]]

(***************************************************************************)
(* rspamd_mailto_parse: one iteration of its while loop, on the parser     *)
(* state s = [st, p, c, u, jmp]; jmp = "out" after a goto out              *)
(***************************************************************************)
MailtoStep(m, str, s) ==
    LET t == At(m, s.p)
        adv(r) == [r EXCEPT !.p = s.p + 1]
        out == [s EXCEPT !.jmp = "out"]
    IN  CASE s.st = "parse_mailto" ->
               IF t = ":"
               THEN adv([s EXCEPT !.st = "parse_semicolon",
                                  !.u = SET_U(s.u, "UF_SCHEMA", s.p, s.c, str)])
               ELSE adv(s)
          [] s.st = "parse_semicolon" ->
               IF t = "/" THEN adv([s EXCEPT !.st = "parse_slash"])
               ELSE [s EXCEPT !.st = "parse_slash_slash"]
          [] s.st = "parse_slash" ->
               IF t = "/" THEN adv([s EXCEPT !.st = "parse_slash_slash"]) ELSE out
          [] s.st = "parse_slash_slash" ->
               IF t = "?" THEN adv([s EXCEPT !.st = "parse_prefix_question"])
               ELSE IF t # "/" THEN [s EXCEPT !.c = s.p, !.st = "parse_user"]
               ELSE adv(s)
          [] s.st = "parse_prefix_question" ->
               IF t = "t" THEN [s EXCEPT !.st = "parse_destination"] ELSE out
          [] s.st = "parse_destination" ->
               IF t = "=" THEN adv([s EXCEPT !.st = "parse_equal"]) ELSE adv(s)
          [] s.st = "parse_equal" ->
               [s EXCEPT !.c = s.p, !.st = "parse_user"]
          [] s.st = "parse_user" ->
               IF t = "@"
               THEN IF s.p - s.c = 0 THEN out
                    ELSE adv([s EXCEPT !.st = "parse_at",
                                       !.u = SET_U(s.u, "UF_USERINFO", s.p, s.c, str)])
               ELSE IF ~is_mailsafe(t) THEN out
               ELSE adv(s)
          [] s.st = "parse_at" ->
               [s EXCEPT !.c = s.p, !.st = "parse_domain"]
          [] s.st = "parse_domain" ->
               IF t = "?"
               THEN adv([s EXCEPT !.st = "parse_suffix_question",
                                  !.u = SET_U(s.u, "UF_HOST", s.p, s.c, str)])
               ELSE IF ~is_domain(t) /\ t # "." /\ t # "_" THEN out
               ELSE adv(s)
          [] s.st = "parse_suffix_question" ->
               [s EXCEPT !.c = s.p, !.st = "parse_query"]
          [] s.st = "parse_query" ->
               IF ~is_mailsafe(t) THEN out ELSE adv(s)

RECURSIVE MailtoLoop(_, _, _, _)
MailtoLoop(m, str, last, s) ==
    IF s.jmp = "out" \/ s.p >= last THEN s
    ELSE MailtoLoop(m, str, last, MailtoStep(m, str, s))

\* the code after the loop: the final state decides ret; *end = p
MailtoFinish(s, str, strict) ==
    LET r == IF s.jmp = "out" THEN [ret |-> 1, u |-> s.u]
             ELSE IF s.st = "parse_domain"
             THEN IF s.p - s.c # 0
                  THEN [ret |-> 0, u |-> SET_U(s.u, "UF_HOST", s.p, s.c, str)]
                  ELSE [ret |-> 1, u |-> s.u]
             ELSE IF s.st = "parse_query"
             THEN [ret |-> 0,
                   u |-> IF s.p - s.c > 0 THEN SET_U(s.u, "UF_QUERY", s.p, s.c, str) ELSE s.u]
             ELSE [ret |-> 1, u |-> s.u]
    IN  [ret |-> IF ~strict THEN 0 ELSE r.ret, end |-> s.p, u |-> r.u]

MailtoStart(str) == [st |-> "parse_mailto", p |-> str, c |-> str, u |-> ZeroU, jmp |-> "loop"]

\* rspamd_mailto_parse (u, str, len, end, strict) on the bytes of m from offset str
rspamd_mailto_parse(m, str, len, strict) ==
    MailtoFinish(MailtoLoop(m, str, str + len, MailtoStart(str)), str, strict)


(***************************************************************************)
(* strtoul (c, NULL, 10) assigned to glong pt, on an LP64 build: the value *)
(* saturates at ULONG_MAX = 2^64 - 1 and a value above LONG_MAX = 2^63 - 1 *)
(* is negative as a glong.  Decimal strings keep the 64-bit width exact.   *)
(***************************************************************************)
ULONG_MAX_DEC ==
    << "1", "8", "4", "4", "6", "7", "4", "4", "0", "7", "3", "7", "0", "9", "5", "5", "1", "6", "1", "5" >>

LONG_MAX_DEC ==
    << "9", "2", "2", "3", "3", "7", "2", "0", "3", "6", "8", "5", "4", "7", "7", "5", "8", "0", "7" >>

PORT_MAX_DEC == << "6", "5", "5", "3", "5" >>

DigitVal(d) == CHOOSE v \in 0..9 : HexSeq[v + 1] = d

\* the number of decimal digits of m from offset c
DigitRunLen(m, c) ==
    CHOOSE n \in 0..(IF Len(m) > c THEN Len(m) - c ELSE 0) :
        /\ \A i \in 0..(n - 1) : At(m, c + i) \in Digit
        /\ At(m, c + n) \notin Digit

StripZeros(ds) ==
    LET nz == { i \in 1..Len(ds) : ds[i] # "0" }
    IN  IF nz = {} THEN << >>
        ELSE SubSeq(ds, CHOOSE i \in nz : \A j \in nz : i <= j, Len(ds))

\* a < b, for decimal strings without leading zeros
DecLt(a, b) ==
    \/ Len(a) < Len(b)
    \/ /\ Len(a) = Len(b)
       /\ \E i \in 1..Len(a) :
            /\ \A j \in 1..(i - 1) : a[j] = b[j]
            /\ DigitVal(a[i]) < DigitVal(b[i])

RECURSIVE DecMod16(_, _, _)
DecMod16(ds, i, acc) ==
    IF i > Len(ds) THEN acc
    ELSE DecMod16(ds, i + 1, (acc * 10 + DigitVal(ds[i])) % 65536)

\* pt = strtoul (c, NULL, 10): whether pt == 0, whether pt > 65535 (as a
\* signed glong), and the 16 bits kept by u->port = pt
strtoul10(m, c) ==
    LET ds == StripZeros(Sub(m, c, DigitRunLen(m, c)))
    IN  IF ds = << >> THEN [zero |-> TRUE, big |-> FALSE, low16 |-> 0]
        ELSE IF DecLt(ULONG_MAX_DEC, ds) THEN [zero |-> FALSE, big |-> FALSE, low16 |-> 65535]
        ELSE IF DecLt(LONG_MAX_DEC, ds)
        THEN [zero |-> FALSE, big |-> FALSE, low16 |-> DecMod16(ds, 1, 0)]
        ELSE [zero |-> FALSE, big |-> DecLt(PORT_MAX_DEC, ds), low16 |-> DecMod16(ds, 1, 0)]

\* if (pt == 0 || pt > 65535) goto out;
PortBad(pt) == pt.zero \/ pt.big

(***************************************************************************)
(* g_utf8_get_char_validated, g_utf8_next_char and g_unichar_isalnum for   *)
(* the code points of one and two bytes (U+0000 .. U+07FF); of the longer  *)
(* sequences only the form is checked                                      *)
(***************************************************************************)
Utf8Skip(b) ==
    IF b \notin HighBytes THEN 1
    ELSE LET code == CodeOf(b)
         IN  IF code < 192 THEN 1
             ELSE IF code < 224 THEN 2
             ELSE IF code < 240 THEN 3
             ELSE IF code < 248 THEN 4
             ELSE IF code < 252 THEN 5
             ELSE IF code < 254 THEN 6
             ELSE 1

Utf8IsCont(b) == b \in HighBytes /\ CodeOf(b) < 192

\* "ok" with the sequence length, "bad" for (gunichar) -1, "partial" for (gunichar) -2
g_utf8_get_char_validated(m, p, max_len) ==
    LET b == At(m, p)
    IN  IF max_len = 0 THEN [v |-> "partial", n |-> 0]
        ELSE IF b \notin HighBytes THEN [v |-> "ok", n |-> 1]
        ELSE LET code == CodeOf(b)
                 n == Utf8Skip(b)
             IN  IF code < 194 \/ code > 244 THEN [v |-> "bad", n |-> 0]
                 ELSE IF \E i \in 1..(n - 1) : i < max_len /\ ~Utf8IsCont(At(m, p + i))
                 THEN [v |-> "bad", n |-> 0]
                 ELSE IF n > max_len THEN [v |-> "partial", n |-> 0]
                 ELSE [v |-> "ok", n |-> n]

\* g_unichar_isalnum of the character of n bytes at p
g_unichar_isalnum(m, p, n) ==
    LET b == At(m, p)
    IN  IF n = 1 THEN g_ascii_isalnum(b)
        ELSE IF n = 2 /\ b = "xC2"
        THEN At(m, p + 1) \in { "xAA", "xB2", "xB3", "xB5", "xB9", "xBA", "xBC", "xBD", "xBE" }
        ELSE IF n = 2 /\ b = "xC3"
        THEN At(m, p + 1) \notin { "x97", "xB7" }
        ELSE n = 2 /\ b \in { "xC4", "xC5", "xC6", "xC7", "xC8", "xC9" }

(***************************************************************************)
(* rspamd_web_parse: one iteration of its while loop, on the parser state  *)
(* s = [st, p, c, slash, user_seen, t, u, jmp]; jmp = "set" after a        *)
(* goto set and "out" after a goto out                                     *)
(***************************************************************************)
WebStep(m, str, last, strict, s0) ==
    LET t == At(m, s0.p)
        s == [s0 EXCEPT !.t = t]
        adv(r) == [r EXCEPT !.p = s.p + 1]
        out == [s EXCEPT !.jmp = "out"]
        set == [s EXCEPT !.jmp = "set"]
        host(r) == [r EXCEPT !.u = SET_U(s.u, "UF_HOST", s.p, s.c, str)]
        lwsp == IF strict THEN (IF g_ascii_isspace(t) THEN set ELSE out) ELSE set
        port(r) == LET pt == strtoul10(m, s.c)
                   IN  IF PortBad(pt) THEN out ELSE adv([r EXCEPT !.u.port = pt.low16])
    IN  CASE s.st = "parse_protocol" ->
               IF t = ":"
               THEN adv([s EXCEPT !.st = "parse_semicolon",
                                  !.u = SET_U(s.u, "UF_SCHEMA", s.p, s.c, str)])
               ELSE IF ~g_ascii_isalnum(t) /\ t # "+" /\ t # "-"
               THEN IF ~strict /\ s.p > s.c
                    THEN [s EXCEPT !.st = "parse_domain", !.p = s.c, !.slash = s.c]
                    ELSE out
               ELSE adv(s)
          [] s.st = "parse_semicolon" ->
               IF t = "/" THEN adv([s EXCEPT !.st = "parse_slash"])
               ELSE [s EXCEPT !.st = "parse_slash_slash"]
          [] s.st = "parse_slash" ->
               IF t = "/" THEN adv([s EXCEPT !.st = "parse_slash_slash"]) ELSE out
          [] s.st = "parse_slash_slash" ->
               IF t # "/"
               THEN IF t = "["
                    THEN [s EXCEPT !.st = "parse_ipv6", !.slash = s.p, !.p = s.p + 1, !.c = s.p + 1]
                    ELSE [s EXCEPT !.st = "parse_domain", !.slash = s.p, !.c = s.p]
               ELSE adv(s)
          [] s.st = "parse_ipv6" ->
               IF t = "]"
               THEN IF s.p - s.c = 0 THEN out
                    ELSE LET h == host(s)
                             p1 == s.p + 1
                         IN  IF At(m, p1) = ":"
                             THEN [h EXCEPT !.st = "parse_port", !.c = p1 + 1, !.p = p1 + 1]
                             ELSE IF At(m, p1) = "/"
                             THEN [h EXCEPT !.st = "parse_path", !.c = p1 + 1, !.p = p1 + 1]
                             ELSE IF p1 # last
                             THEN [h EXCEPT !.p = p1, !.jmp = "out"]
                             ELSE [h EXCEPT !.p = p1 + 1]
               ELSE IF ~g_ascii_isxdigit(t) /\ t # ":" /\ t # "." THEN out
               ELSE adv(s)
          [] s.st = "parse_user" ->
               IF t = ":"
               THEN IF s.p - s.c = 0 THEN out
                    ELSE adv([s EXCEPT !.st = "parse_password_start",
                                       !.u = SET_U(s.u, "UF_USERINFO", s.p, s.c, str)])
               ELSE IF t = "@"
               THEN IF s.p - s.c = 0 THEN out
                    ELSE adv([s EXCEPT !.st = "parse_at",
                                       !.u = SET_U(s.u, "UF_USERINFO", s.p, s.c, str)])
               ELSE IF ~g_ascii_isgraph(t) THEN out
               ELSE adv(s)
          [] s.st = "parse_password_start" ->
               IF t = "@" THEN adv([s EXCEPT !.st = "parse_at"])
               ELSE adv([s EXCEPT !.c = s.p, !.st = "parse_password"])
          [] s.st = "parse_password" ->
               IF t = "@" THEN adv([s EXCEPT !.st = "parse_at"])
               ELSE IF ~g_ascii_isgraph(t) THEN out
               ELSE adv(s)
          [] s.st = "parse_at" ->
               IF t = "["
               THEN [s EXCEPT !.st = "parse_ipv6", !.p = s.p + 1, !.c = s.p + 1]
               ELSE [s EXCEPT !.st = "parse_domain", !.c = s.p]
          [] s.st = "parse_domain" ->
               IF t = "/" \/ t = ":" \/ t = "?" \/ t = "#"
               THEN IF s.p - s.c = 0 THEN out
                    ELSE IF t = "/" THEN adv(host([s EXCEPT !.st = "parse_suffix_slash"]))
                    ELSE IF t = "?" THEN adv(host([s EXCEPT !.st = "parse_query", !.c = s.p + 1]))
                    ELSE IF t = "#" THEN adv(host([s EXCEPT !.st = "parse_part", !.c = s.p + 1]))
                    ELSE IF ~s.user_seen THEN adv([s EXCEPT !.st = "parse_port_password"])
                    ELSE adv(host([s EXCEPT !.st = "parse_port", !.c = s.p + 1]))
               ELSE IF is_url_end(t) THEN set
               ELSE IF t # "." /\ t # "-" /\ t # "_" /\ t # "%"
               THEN LET uc == g_utf8_get_char_validated(m, s.p, last - s.p)
                    IN  IF uc.v = "bad" THEN out
                        ELSE IF uc.v = "partial" \/ ~g_unichar_isalnum(m, s.p, uc.n)
                        THEN (IF strict THEN out ELSE set)
                        ELSE [s EXCEPT !.p = s.p + Utf8Skip(t)]
               ELSE adv(s)
          [] s.st = "parse_port_password" ->
               IF g_ascii_isdigit(t)
               THEN [s EXCEPT !.st = "parse_port", !.c = s.p,
                              !.u = SET_U(s.u, "UF_HOST", s.p - 1, s.slash, str)]
               ELSE [s EXCEPT !.st = "parse_user", !.p = s.slash, !.c = s.slash,
                              !.user_seen = TRUE]
          [] s.st = "parse_port" ->
               IF t = "/" THEN port([s EXCEPT !.st = "parse_suffix_slash"])
               ELSE IF t = "?" THEN port([s EXCEPT !.st = "parse_query", !.c = s.p + 1])
               ELSE IF t = "#" THEN port([s EXCEPT !.st = "parse_part", !.c = s.p + 1])
               ELSE IF is_url_end(t) THEN set
               ELSE IF ~g_ascii_isdigit(t)
               THEN (IF strict \/ ~g_ascii_isspace(t) THEN out ELSE set)
               ELSE adv(s)
          [] s.st = "parse_suffix_slash" ->
               IF t # "/" THEN [s EXCEPT !.c = s.p, !.st = "parse_path"] ELSE adv(s)
          [] s.st = "parse_path" ->
               IF t = "?"
               THEN adv([s EXCEPT !.st = "parse_query", !.c = s.p + 1,
                                  !.u = IF s.p - s.c # 0
                                        THEN SET_U(s.u, "UF_PATH", s.p, s.c, str) ELSE s.u])
               ELSE IF is_url_end(t) THEN set
               ELSE IF is_lwsp(t) THEN lwsp
               ELSE adv(s)
          [] s.st = "parse_query" ->
               IF t = "#"
               THEN adv([s EXCEPT !.st = "parse_part", !.c = s.p + 1,
                                  !.u = IF s.p - s.c # 0
                                        THEN SET_U(s.u, "UF_QUERY", s.p, s.c, str) ELSE s.u])
               ELSE IF is_url_end(t) THEN set
               ELSE IF is_lwsp(t) THEN lwsp
               ELSE adv(s)
          [] s.st = "parse_part" ->
               IF is_url_end(t) THEN set
               ELSE IF is_lwsp(t) THEN lwsp
               ELSE adv(s)

RECURSIVE WebLoop(_, _, _, _, _)
WebLoop(m, str, last, strict, s) ==
    IF s.jmp # "loop" \/ s.p >= last THEN s
    ELSE WebLoop(m, str, last, strict, WebStep(m, str, last, strict, s))

\* the code from the label set: "Parse remaining", then out: *end = p
WebFinish(m, str, s) ==
    LET bad == [ret |-> 1, end |-> s.p, u |-> s.u]
        ok(u) == [ret |-> 0, end |-> s.p, u |-> u]
        opt(f) == ok(IF s.p - s.c > 0 THEN SET_U(s.u, f, s.p, s.c, str) ELSE s.u)
    IN  IF s.jmp = "out" THEN bad
        ELSE CASE s.st = "parse_domain" ->
                    IF s.p - s.c = 0 THEN bad ELSE ok(SET_U(s.u, "UF_HOST", s.p, s.c, str))
               [] s.st = "parse_port" ->
                    LET pt == strtoul10(m, s.c)
                    IN  IF PortBad(pt) THEN bad ELSE ok([s.u EXCEPT !.port = pt.low16])
               [] s.st = "parse_suffix_slash" -> ok(s.u)
               [] s.st = "parse_path" -> opt("UF_PATH")
               [] s.st = "parse_query" -> opt("UF_QUERY")
               [] s.st = "parse_part" -> opt("UF_FRAGMENT")
               [] s.st = "parse_ipv6" -> IF s.t # "]" THEN bad ELSE ok(s.u)
               [] OTHER -> bad

\* mutation of WebStart: user_seen is set from the beginning, so that a ':'
\* behind the host is never taken for the one of a password
WebStartUserSeen(str) ==
    [st |-> "parse_protocol", p |-> str, c |-> str, slash |-> str, user_seen |-> TRUE,
     t |-> NUL, u |-> ZeroU, jmp |-> "loop"]

WebStart(str) ==
    [st |-> "parse_protocol", p |-> str, c |-> str, slash |-> str, user_seen |-> FALSE,
     t |-> NUL, u |-> ZeroU, jmp |-> "loop"]

\* rspamd_web_parse (u, str, len, end, strict) on the bytes of m from offset str
rspamd_web_parse(m, str, len, strict) ==
    WebFinish(m, str, WebLoop(m, str, str + len, strict, WebStart(str)))


(***************************************************************************)
(* The matcher set: static_matchers, then one matcher per line of the      *)
(* suffix-list file.  kind names the start and end probes of the matcher:  *)
(* "file" for url_file_start/end, "web" for url_web_start/end, "email"     *)
(* for url_email_start/end and "tld" for url_tld_start/end                 *)
(***************************************************************************)
static_matchers == <<
    [pattern |-> << "f", "i", "l", "e", ":", "/", "/" >>, prefix |-> << >>,
     kind |-> "file", flags |-> { }],
    [pattern |-> << "f", "t", "p", ":", "/", "/" >>, prefix |-> << >>,
     kind |-> "web", flags |-> { }],
    [pattern |-> << "s", "f", "t", "p", ":", "/", "/" >>, prefix |-> << >>,
     kind |-> "web", flags |-> { }],
    [pattern |-> << "h", "t", "t", "p", ":", "/", "/" >>, prefix |-> << >>,
     kind |-> "web", flags |-> { }],
    [pattern |-> << "h", "t", "t", "p", "s", ":", "/", "/" >>, prefix |-> << >>,
     kind |-> "web", flags |-> { }],
    [pattern |-> << "n", "e", "w", "s", ":", "/", "/" >>, prefix |-> << >>,
     kind |-> "web", flags |-> { }],
    [pattern |-> << "n", "n", "t", "p", ":", "/", "/" >>, prefix |-> << >>,
     kind |-> "web", flags |-> { }],
    [pattern |-> << "t", "e", "l", "n", "e", "t", ":", "/", "/" >>, prefix |-> << >>,
     kind |-> "web", flags |-> { }],
    [pattern |-> << "w", "e", "b", "c", "a", "l", ":", "/", "/" >>, prefix |-> << >>,
     kind |-> "web", flags |-> { }],
    [pattern |-> << "m", "a", "i", "l", "t", "o", ":" >>, prefix |-> << >>,
     kind |-> "email", flags |-> { }],
    [pattern |-> << "c", "a", "l", "l", "t", "o", ":", "/", "/" >>, prefix |-> << >>,
     kind |-> "web", flags |-> { }],
    [pattern |-> << "h", "3", "2", "3", ":" >>, prefix |-> << >>,
     kind |-> "web", flags |-> { }],
    [pattern |-> << "s", "i", "p", ":" >>, prefix |-> << >>,
     kind |-> "web", flags |-> { }],
    [pattern |-> << "w", "w", "w", "." >>, prefix |-> << "h", "t", "t", "p", ":", "/", "/" >>,
     kind |-> "web", flags |-> { }],
    [pattern |-> << "f", "t", "p", "." >>, prefix |-> << "f", "t", "p", ":", "/", "/" >>,
     kind |-> "web", flags |-> { "URL_FLAG_NOHTML" }],
    [pattern |-> << "@" >>, prefix |-> << "m", "a", "i", "l", "t", "o", ":", "/", "/" >>,
     kind |-> "email", flags |-> { "URL_FLAG_NOHTML" }] >>

\* the suffix-list file read at initialisation, one line per element
TldFile == <<
    << "/", "/", " ", "s", "u", "f", "f", "i", "x", "e", "s" >>,
    << >>,
    << "c", "o", "m" >>,
    << "c", "o", ".", "u", "k" >>,
    << "*", ".", "c", "k" >>,
    << "!", "w", "w", "w", ".", "c", "k" >>,
    << "n", "e" >>,
    << "n", "e", "t" >>,
    << "m", "a" >>,
    << "m", "a", "n", "g", "o" >> >>

\* the matchers rspamd_url_parse_tld_file appends for the lines from i on
RECURSIVE rspamd_url_parse_tld_file(_, _)
rspamd_url_parse_tld_file(lines, i) ==
    IF i > Len(lines) THEN << >>
    ELSE LET linebuf == lines[i]
             rest == rspamd_url_parse_tld_file(lines, i + 1)
             star == linebuf # << >> /\ linebuf[1] = "*"
             dots == { j \in 1..Len(linebuf) : linebuf[j] = "." }
             first == CHOOSE j \in dots : \A k \in dots : j <= k
             p == IF star THEN SubSeq(linebuf, first + 1, Len(linebuf)) ELSE linebuf
         IN  IF linebuf = << >> \/ linebuf[1] = "/" \/ g_ascii_isspace(linebuf[1]) THEN rest
             ELSE IF linebuf[1] = "!" THEN rest
             ELSE IF star /\ dots = {} THEN rest
             ELSE << [pattern |-> << "." >> \o p, prefix |-> << "h", "t", "t", "p", ":", "/", "/" >>,
                      kind |-> "tld",
                      flags |-> { "URL_FLAG_NOHTML", "URL_FLAG_TLD_MATCH" }
                                  \cup (IF star THEN { "URL_FLAG_STAR_MATCH" } ELSE { })] >> \o rest

\* url_scanner->matchers after rspamd_url_init (tld_file)
rspamd_url_init(tld_file) == static_matchers \o rspamd_url_parse_tld_file(tld_file, 1)

url_scanner == rspamd_url_init(TldFile)

(***************************************************************************)
(* struct url_match_scanner, the target of the global pointer url_scanner. *)
(* allocated is FALSE while the pointer is NULL; patterns holds the text   *)
(* and the length of the pattern of each matcher, and search_trie the      *)
(* states of the automaton acism_create builds of them, the prefixes of    *)
(* the patterns.  calls counts the calls of rspamd_url_init made so far.   *)
(***************************************************************************)
NullScanner ==
    [calls |-> 0, allocated |-> FALSE, matchers |-> << >>, patterns |-> << >>,
     search_trie |-> { }]

Patterns(ms) == [i \in 1..Len(ms) |-> [ptr |-> ms[i].pattern, len |-> Len(ms[i].pattern)]]

acism_create(pats) ==
    UNION { { SubSeq(pats[i].ptr, 1, n) : n \in 0..pats[i].len } : i \in 1..Len(pats) }

\* the scanner sc after the matchers ms were put into it
BuildScanner(sc, ms) ==
    [sc EXCEPT !.allocated = TRUE, !.matchers = ms, !.patterns = Patterns(ms),
               !.search_trie = acism_create(Patterns(ms))]

\* mutation of InitScanner: the scanner is built whether or not it is there
InitScannerAgain(sc, tld_file) == BuildScanner(sc, rspamd_url_init(tld_file))

\* what rspamd_url_init (tld_file) makes of the scanner sc
InitScanner(sc, tld_file) ==
    IF ~sc.allocated THEN BuildScanner(sc, rspamd_url_init(tld_file)) ELSE sc

\* the scanner after the one call of rspamd_url_init at startup
Initialised == [InitScanner(NullScanner, TldFile) EXCEPT !.calls = 1]

(***************************************************************************)
(* The Aho-Corasick automaton (acism_lookup, caseless).  A state is the    *)
(* longest suffix of the bytes consumed so far that is a prefix of a       *)
(* pattern; the root is << >>.  Scanning text from state st reports every  *)
(* pattern occurrence that ends in text, in the order of its end, the      *)
(* longest pattern first; textpos counts the bytes of text consumed.       *)
(***************************************************************************)
IsSuffixAt(pat, ctx, e) ==
    /\ Len(pat) <= e
    /\ \A j \in 1..Len(pat) : ctx[e - Len(pat) + j] = pat[j]

\* the patterns ending at position e of ctx, the longest first
RECURSIVE AcOrder(_)
AcOrder(ks) ==
    IF ks = {} THEN << >>
    ELSE LET k == CHOOSE x \in ks : \A y \in ks :
                     \/ Len(url_scanner[x].pattern) > Len(url_scanner[y].pattern)
                     \/ Len(url_scanner[x].pattern) = Len(url_scanner[y].pattern) /\ x <= y
         IN  << k >> \o AcOrder(ks \ { k })

RECURSIVE AcHitsFrom(_, _, _, _)
AcHitsFrom(ctx, off, n, e) ==
    IF e > n THEN << >>
    ELSE LET ks == { k \in 1..Len(url_scanner) : IsSuffixAt(url_scanner[k].pattern, ctx, off + e) }
             ord == AcOrder(ks)
         IN  [j \in 1..Len(ord) |-> [strnum |-> ord[j], textpos |-> e]]
             \o AcHitsFrom(ctx, off, n, e + 1)

\* every (strnum, textpos) acism_lookup hands to its callback, in order
AcHits(text, st) == AcHitsFrom(st \o LowerSeq(text), Len(st), Len(text), 1)

\* the automaton state after the first textpos bytes of text, from state st
AcState(text, st, textpos) ==
    LET ctx == st \o LowerSeq(SubSeq(text, 1, textpos))
        isPrefix(n) == \E k \in 1..Len(url_scanner) :
                          /\ n <= Len(url_scanner[k].pattern)
                          /\ \A j \in 1..n : url_scanner[k].pattern[j] = ctx[Len(ctx) - n + j]
        best == CHOOSE n \in 0..Len(ctx) :
                    isPrefix(n) /\ \A n2 \in (n + 1)..Len(ctx) : ~isPrefix(n2)
    IN  SubSeq(ctx, Len(ctx) - best + 1, Len(ctx))

(***************************************************************************)
(* rspamd_decode_url, rspamd_str_lc and rspamd_str_lc_utf8                 *)
(***************************************************************************)
HexVal(c) == CHOOSE v \in 0..15 : HexSeq[v + 1] = c \/ HexSeq[v + 1] = ByteOf(CodeOf(c) - 32)

\* %HH becomes the byte 16 * H + H; an invalid escape stays as it is
RECURSIVE rspamd_decode_url(_)
rspamd_decode_url(s) ==
    IF s = << >> THEN << >>
    ELSE IF s[1] = "%" /\ Len(s) >= 3 /\ s[2] \in XDigit /\ s[3] \in XDigit
    THEN << ByteOf(16 * HexVal(s[2]) + HexVal(s[3])) >> \o rspamd_decode_url(SubSeq(s, 4, Len(s)))
    ELSE << s[1] >> \o rspamd_decode_url(Tail(s))

rspamd_str_lc(s) == LowerSeq(s)

\* ASCII letters and the two-byte letters U+00C0 .. U+00DE are folded
RECURSIVE rspamd_str_lc_utf8(_)
rspamd_str_lc_utf8(s) ==
    IF s = << >> THEN << >>
    ELSE IF /\ s[1] = "xC3" /\ Len(s) >= 2 /\ Utf8IsCont(s[2])
            /\ CodeOf(s[2]) < 159 /\ s[2] # "x97"
    THEN << s[1], ByteOf(CodeOf(s[2]) + 32) >> \o rspamd_str_lc_utf8(SubSeq(s, 3, Len(s)))
    ELSE << g_ascii_tolower(s[1]) >> \o rspamd_str_lc_utf8(Tail(s))

(***************************************************************************)
(* libc: inet_pton, inet_ntop and strtoul with base 0.  A 32-bit or 64-bit *)
(* unsigned value is the sequence of its octets, the lowest first.         *)
(***************************************************************************)
\* the bytes of buf before its first NUL: what a C string function sees
CStr(buf) ==
    LET nuls == { i \in 1..Len(buf) : buf[i] = NUL }
    IN  IF nuls = {} THEN buf
        ELSE SubSeq(buf, 1, (CHOOSE i \in nuls : \A j \in nuls : i <= j) - 1)

\* rspamd_strlcpy (dst, src, siz): at most siz - 1 bytes, up to the first NUL
rspamd_strlcpy(m, src, siz) == CStr([i \in 1..(siz - 1) |-> At(m, src + i - 1)])

RECURSIVE Split(_, _)
Split(s, sep) ==
    LET seps == { i \in 1..Len(s) : s[i] = sep }
    IN  IF seps = {} THEN << s >>
        ELSE LET i == CHOOSE x \in seps : \A y \in seps : x <= y
             IN  << SubSeq(s, 1, i - 1) >> \o Split(SubSeq(s, i + 1, Len(s)), sep)

RECURSIVE DecValue(_)
DecValue(ds) == IF ds = << >> THEN 0 ELSE 10 * DecValue(SubSeq(ds, 1, Len(ds) - 1)) + DigitVal(ds[Len(ds)])

RECURSIVE HexValue(_)
HexValue(hs) == IF hs = << >> THEN 0 ELSE 16 * HexValue(SubSeq(hs, 1, Len(hs) - 1)) + HexVal(hs[Len(hs)])

RECURSIVE DecStr(_)
DecStr(n) == IF n < 10 THEN << HexSeq[n + 1] >> ELSE DecStr(n \div 10) \o << HexSeq[(n % 10) + 1] >>

RECURSIVE HexStr(_)
HexStr(n) ==
    IF n < 16 THEN << g_ascii_tolower(HexSeq[n + 1]) >>
    ELSE HexStr(n \div 16) \o << g_ascii_tolower(HexSeq[(n % 16) + 1]) >>

\* one octet of a dotted quad: 1 to 3 digits, no leading zero, at most 255
IsQuadPart(c) ==
    /\ Len(c) \in 1..3
    /\ \A i \in 1..Len(c) : c[i] \in Digit
    /\ (Len(c) > 1 => c[1] # "0")
    /\ DecValue(c) <= 255

\* inet_pton (AF_INET): the four octets, or << >> when it returns 0
inet_pton4(s) ==
    LET cs == Split(s, ".")
    IN  IF Len(cs) = 4 /\ \A i \in 1..4 : IsQuadPart(cs[i])
        THEN [i \in 1..4 |-> DecValue(cs[i])]
        ELSE << >>

inet_ntop4(o) == DecStr(o[1]) \o << "." >> \o DecStr(o[2]) \o << "." >> \o DecStr(o[3]) \o << "." >> \o DecStr(o[4])

IsHexGroup(c) == Len(c) \in 1..4 /\ \A i \in 1..Len(c) : c[i] \in XDigit

\* the 16-bit groups of a colon-separated run; the last may be a dotted quad
RECURSIVE Groups6(_, _)
Groups6(cs, mayQuad) ==
    IF cs = << >> THEN << >>
    ELSE IF Len(cs) = 1 /\ mayQuad /\ inet_pton4(cs[1]) # << >>
    THEN LET o == inet_pton4(cs[1]) IN << 256 * o[1] + o[2], 256 * o[3] + o[4] >>
    ELSE << HexValue(cs[1]) >> \o Groups6(Tail(cs), mayQuad)

Valid6(cs, mayQuad) ==
    \A i \in 1..Len(cs) : IsHexGroup(cs[i]) \/ (i = Len(cs) /\ mayQuad /\ inet_pton4(cs[i]) # << >>)

\* inet_pton (AF_INET6): the eight groups, or << >> when it returns 0
inet_pton6(s) ==
    LET dd == { i \in 1..(Len(s) - 1) : s[i] = ":" /\ s[i + 1] = ":" }
    IN  IF dd = {} THEN
            LET cs == Split(s, ":")
            IN  IF Valid6(cs, TRUE) /\ Len(Groups6(cs, TRUE)) = 8 THEN Groups6(cs, TRUE) ELSE << >>
        ELSE IF Cardinality(dd) > 1 THEN << >>
        ELSE LET i == CHOOSE x \in dd : TRUE
                 l == SubSeq(s, 1, i - 1)
                 r == SubSeq(s, i + 2, Len(s))
                 lc == IF l = << >> THEN << >> ELSE Split(l, ":")
                 rc == IF r = << >> THEN << >> ELSE Split(r, ":")
                 lg == Groups6(lc, FALSE)
                 rg == Groups6(rc, TRUE)
                 z == 8 - Len(lg) - Len(rg)
             IN  IF Valid6(lc, FALSE) /\ Valid6(rc, TRUE) /\ z >= 1
                 THEN lg \o [k \in 1..z |-> 0] \o rg
                 ELSE << >>

RECURSIVE JoinHex(_)
JoinHex(gs) ==
    IF gs = << >> THEN << >>
    ELSE IF Len(gs) = 1 THEN HexStr(gs[1])
    ELSE HexStr(gs[1]) \o << ":" >> \o JoinHex(Tail(gs))

\* inet_ntop (AF_INET6): the longest run of two or more zero groups becomes
\* "::", and an IPv4-compatible or IPv4-mapped address ends in a dotted quad
inet_ntop6(g) ==
    LET run(i) == CHOOSE n \in 0..8 :
                     /\ \A k \in i..(i + n - 1) : k <= 8 /\ g[k] = 0
                     /\ (i + n > 8 \/ g[i + n] # 0)
        best == CHOOSE i \in 1..8 : \A j \in 1..8 :
                     run(i) > run(j) \/ (run(i) = run(j) /\ i <= j)
        bl == run(best)
        quad == /\ best = 1
                /\ \/ bl = 6
                   \/ bl = 7 /\ g[8] # 1
                   \/ bl = 5 /\ g[6] = 65535
        tail == IF quad
                THEN inet_ntop4(<< g[7] \div 256, g[7] % 256, g[8] \div 256, g[8] % 256 >>)
                ELSE << >>
        n == IF quad THEN 6 ELSE 8
        hex(a, b) == JoinHex(SubSeq(g, a, b))
    IN  IF bl < 2 THEN hex(1, 8)
        ELSE hex(1, best - 1) \o << ":" >>
             \o (IF best + bl > n
                 THEN << ":" >> \o tail
                 ELSE << ":" >> \o hex(best + bl, n)
                      \o (IF quad THEN << ":" >> \o tail ELSE << >>))

\* b * base + carry over the octets of b from the i-th on: the octets and
\* the carry out of the last one
RECURSIVE MulAdd(_, _, _, _)
MulAdd(b, i, base, carry) ==
    IF i > Len(b) THEN [b |-> b, carry |-> carry]
    ELSE LET v == b[i] * base + carry
         IN  MulAdd([b EXCEPT ![i] = v % 256], i + 1, base, v \div 256)

\* the value of a digit run in 64 bits, and whether it overflowed
RECURSIVE DigitsValue(_, _, _)
DigitsValue(ds, base, acc) ==
    IF ds = << >> THEN acc
    ELSE LET r == MulAdd(acc.b, 1, base, HexVal(ds[1]))
         IN  DigitsValue(Tail(ds), base, [b |-> r.b, ovf |-> acc.ovf \/ r.carry > 0])

\* two's complement of the octets: 0 - b
Negate(b) == MulAdd([i \in 1..Len(b) |-> 255 - b[i]], 1, 1, 1).b

\* strtoul (buf, &errstr, 0): t is the result cut to guint32, and ok tells
\* whether *errstr == '\0'.  StrtoulValue converts the run of digits that
\* starts after from, StrtoulRun measures it, StrtoulBase chooses the base
\* from the prefix, StrtoulSign takes the sign after ws blanks.
StrtoulValue(s, from, run, base, neg) ==
    LET v == DigitsValue(SubSeq(s, from + 1, from + run), base,
                         [b |-> [i \in 1..8 |-> 0], ovf |-> FALSE])
    IN  [ok |-> IF run = 0 THEN Len(s) = 0 ELSE from + run = Len(s),
         t |-> SubSeq(IF v.ovf THEN [i \in 1..8 |-> 255]
                      ELSE IF neg THEN Negate(v.b) ELSE v.b, 1, 4)]

StrtoulRun(s, from, base, neg) ==
    StrtoulValue(s, from,
                 CHOOSE k \in 0..(Len(s) - from) :
                    /\ \A j \in 1..k : s[from + j] \in XDigit /\ HexVal(s[from + j]) < base
                    /\ \/ from + k = Len(s)
                       \/ ~(s[from + k + 1] \in XDigit /\ HexVal(s[from + k + 1]) < base),
                 base, neg)

StrtoulBase(s, sg, neg) ==
    LET ch(k) == IF sg + k <= Len(s) THEN s[sg + k] ELSE NUL
    IN  IF ch(1) = "0" /\ ch(2) \in { "x", "X" } /\ ch(3) \in XDigit
        THEN StrtoulRun(s, sg + 2, 16, neg)
        ELSE StrtoulRun(s, sg, IF ch(1) = "0" THEN 8 ELSE 10, neg)

StrtoulSign(s, ws) ==
    StrtoulBase(s, IF ws < Len(s) /\ s[ws + 1] \in { "-", "+" } THEN ws + 1 ELSE ws,
                ws < Len(s) /\ s[ws + 1] = "-")

StrtoulSpace(s) ==
    StrtoulSign(s, CHOOSE k \in 0..Len(s) : (\A j \in 1..k : g_ascii_isspace(s[j]))
                                            /\ (k = Len(s) \/ ~g_ascii_isspace(s[k + 1])))

strtoul0(buf) == StrtoulSpace(CStr(buf))

\* bitwise or of two octets
RECURSIVE BitOr(_, _)
BitOr(a, b) ==
    IF a = 0 THEN b ELSE IF b = 0 THEN a
    ELSE 2 * BitOr(a \div 2, b \div 2) + (IF a % 2 = 1 \/ b % 2 = 1 THEN 1 ELSE 0)

\* n | (t << shift) on guint32, shift a multiple of 8 below 32
OrShifted(n, t, shift) ==
    LET k == shift \div 8
    IN  [i \in 1..4 |-> BitOr(n[i], IF i > k THEN t[i - k] ELSE 0)]

(***************************************************************************)
(* struct rspamd_url.  string is the buffer the record points into, and    *)
(* user, host, data, query, fragment and tld are offsets into it; -1 is    *)
(* NULL.  After rspamd_url_is_ip rewrote the host, host_pool holds the     *)
(* separately allocated canonical text and host and tld are offsets into   *)
(* that.                                                                   *)
(***************************************************************************)
ZeroUri ==
    [ string |-> << >>, urllen |-> 0, protocol |-> "PROTOCOL_FILE", protocollen |-> 0,
      port |-> 0, user |-> -1, userlen |-> 0, host |-> -1, hostlen |-> 0,
      data |-> -1, datalen |-> 0, query |-> -1, querylen |-> 0,
      fragment |-> -1, fragmentlen |-> 0, tld |-> -1, tldlen |-> 0,
      host_pool |-> << >>, in_pool |-> FALSE, flags |-> { } ]

HostMem(uri) == IF uri.in_pool THEN uri.host_pool ELSE uri.string

\* the bytes a component pointer and its length designate
Comp(m, off, len) == [i \in 1..len |-> At(m, off + i - 1)]

HostOf(uri) == Comp(HostMem(uri), uri.host, uri.hostlen)
TldOf(uri) == Comp(HostMem(uri), uri.tld, uri.tldlen)
SchemeOf(uri) == Comp(uri.string, 0, uri.protocollen)
UserOf(uri) == Comp(uri.string, uri.user, uri.userlen)
DataOf(uri) == Comp(uri.string, uri.data, uri.datalen)
QueryOf(uri) == Comp(uri.string, uri.query, uri.querylen)
FragmentOf(uri) == Comp(uri.string, uri.fragment, uri.fragmentlen)

\* memmove (m + dst, m + src, n) inside the buffer m
memmove(m, dst, src, n) ==
    [i \in 1..Len(m) |-> IF i - 1 >= dst /\ i - 1 < dst + n THEN At(m, src + i - 1 - dst) ELSE m[i]]

\* the bytes s written at offset off of m
WriteAt(m, off, s) ==
    [i \in 1..Len(m) |-> IF i - 1 >= off /\ i - 1 < off + Len(s) THEN s[i - off] ELSE m[i]]

\* the pointers rspamd_url_shift moves back by shift after the bytes moved:
\* those of the non-empty components behind the one of the given rank
ShiftPointers(moved, shift, rank) ==
    LET adj(v, len, from) == IF rank <= from /\ len > 0 THEN v - shift ELSE v
    IN  [moved EXCEPT !.user = adj(moved.user, moved.userlen, 0),
                      !.host = adj(moved.host, moved.hostlen, 0),
                      !.data = adj(moved.data, moved.datalen, 1),
                      !.query = adj(moved.query, moved.querylen, 2),
                      !.fragment = adj(moved.fragment, moved.fragmentlen, 3)]

ShiftFrom(uri, nlen, field, old) ==
    IF nlen >= old THEN uri
    ELSE CASE field = "UF_SCHEMA" ->
                ShiftPointers([uri EXCEPT !.protocollen = nlen,
                                          !.string = memmove(uri.string, nlen, old,
                                                             uri.urllen - nlen)],
                              old - nlen, 0)
           [] field = "UF_HOST" ->
                ShiftPointers([uri EXCEPT !.hostlen = nlen,
                                          !.string = memmove(uri.string, uri.host + nlen,
                                                             uri.host + old,
                                                             uri.datalen + uri.querylen
                                                                + uri.fragmentlen)],
                              old - nlen, 1)
           [] field = "UF_PATH" ->
                ShiftPointers([uri EXCEPT !.datalen = nlen,
                                          !.string = memmove(uri.string, uri.data + nlen,
                                                             uri.data + old,
                                                             uri.querylen + uri.fragmentlen)],
                              old - nlen, 2)
           [] field = "UF_QUERY" ->
                ShiftPointers([uri EXCEPT !.querylen = nlen,
                                          !.string = memmove(uri.string, uri.query + nlen,
                                                             uri.query + old,
                                                             uri.fragmentlen)],
                              old - nlen, 3)
           [] field = "UF_FRAGMENT" ->
                ShiftPointers([uri EXCEPT !.fragmentlen = nlen], old - nlen, 4)

rspamd_url_shift(uri, nlen, field) ==
    ShiftFrom(uri, nlen, field,
              CASE field = "UF_SCHEMA" -> uri.protocollen
                [] field = "UF_HOST" -> uri.hostlen
                [] field = "UF_PATH" -> uri.datalen
                [] field = "UF_QUERY" -> uri.querylen
                [] field = "UF_FRAGMENT" -> uri.fragmentlen)

\* rspamd_decode_url in place on one component, then rspamd_url_shift
DecodeWrite(uri, off, d, field) ==
    rspamd_url_shift([uri EXCEPT !.string = WriteAt(uri.string, off, d)], Len(d), field)

DecodeShift(uri, off, len, field) ==
    DecodeWrite(uri, off, rspamd_decode_url(Comp(uri.string, off, len)), field)

(***************************************************************************)
(* rspamd_tld_trie_callback for one hit: ret is its return value           *)
(***************************************************************************)
\* the scan back from p for ndots dots: pos after the loop
RECURSIVE TldScanBack(_, _, _, _, _)
TldScanBack(m, start, p, ndots, pos) ==
    IF p >= start /\ ndots > 0
    THEN IF At(m, p) = "."
         THEN TldScanBack(m, start, p - 1, ndots - 1, p + 1)
         ELSE TldScanBack(m, start, p - 1, ndots, pos)
    ELSE pos

\* mutation of TldCallbackMatcher: tldlen is taken from the host length as
\* it was before the trailing dot was dropped
TldCallbackKeepsDot(matcher, textpos, url) ==
    LET ndots == IF "URL_FLAG_STAR_MATCH" \in matcher.flags THEN 2 ELSE 1
        pos == url.host + textpos - Len(matcher.pattern)
        start == url.host
        weird == At(url.string, pos) # "." \/ textpos # url.hostlen
        u1 == IF weird /\ textpos = url.hostlen - 1 /\ At(url.string, url.host + textpos) = "."
              THEN [url EXCEPT !.hostlen = url.hostlen - 1]
              ELSE url
        tld == TldScanBack(url.string, start, pos - 1, ndots, start)
    IN  IF weird /\ textpos # url.hostlen - 1
        THEN [ret |-> 0, url |-> url]
        ELSE [ret |-> 1, url |-> [u1 EXCEPT !.tld = tld, !.tldlen = url.host + url.hostlen - tld]]

TldCallbackMatcher(matcher, textpos, url) ==
    LET ndots == IF "URL_FLAG_STAR_MATCH" \in matcher.flags THEN 2 ELSE 1
        pos == url.host + textpos - Len(matcher.pattern)
        start == url.host
        weird == At(url.string, pos) # "." \/ textpos # url.hostlen
        u1 == IF weird /\ textpos = url.hostlen - 1 /\ At(url.string, url.host + textpos) = "."
              THEN [url EXCEPT !.hostlen = url.hostlen - 1]
              ELSE url
        tld == TldScanBack(url.string, start, pos - 1, ndots, start)
    IN  IF weird /\ textpos # url.hostlen - 1
        THEN [ret |-> 0, url |-> url]
        ELSE [ret |-> 1, url |-> [u1 EXCEPT !.tld = tld, !.tldlen = u1.host + u1.hostlen - tld]]

rspamd_tld_trie_callback(strnum, textpos, url) ==
    TldCallbackMatcher(url_scanner[strnum], textpos, url)

\* acism_lookup with rspamd_tld_trie_callback over the hits from the j-th on:
\* the scan stops at the first hit the callback accepts
RECURSIVE TldLookup(_, _, _)
TldLookupHit(uri, hits, j, r) ==
    IF r.ret # 0 THEN [ret |-> r.ret, url |-> r.url, strnum |-> hits[j].strnum]
    ELSE TldLookup(uri, hits, j + 1)

TldLookup(uri, hits, j) ==
    IF j > Len(hits) THEN [ret |-> 0, url |-> uri, strnum |-> 0]
    ELSE TldLookupHit(uri, hits, j,
                      rspamd_tld_trie_callback(hits[j].strnum, hits[j].textpos, uri))

(***************************************************************************)
(* rspamd_url_is_ip                                                        *)
(***************************************************************************)
\* mutation of IsIpPart: the part is used as strtoul returned it, without
\* the conversion to big endian
IsIpPartNoSwap(s, end, dotted, r) ==
    LET t == r.t
        i == IF t = << 0, 0, 0, 0 >> THEN 0
             ELSE CHOOSE k \in 1..4 : t[k] # 0 /\ \A j \in (k + 1)..4 : t[j] = 0
        s1 == [s EXCEPT !.c = s.p + 1, !.p = s.p + 1,
                        !.dots = IF dotted THEN s.dots + 1 ELSE s.dots]
    IN  IF ~r.ok THEN [s1 EXCEPT !.t = t, !.check_num = FALSE]
        ELSE IF s.p # end
        THEN [s1 EXCEPT !.t = t, !.i = i, !.n = OrShifted(s.n, t, s.shift),
                        !.shift = (IF i = 0 THEN s.shift + 8 ELSE s.shift) + 8 * i]
        ELSE [s1 EXCEPT !.t = t, !.i = i]

\* one part of the numeric notation, ending at s.p: r is what strtoul made
\* of it, and the result is the loop state after the part
IsIpPart(s, end, dotted, r) ==
    LET t == r.t
        i == IF t = << 0, 0, 0, 0 >> THEN 0
             ELSE CHOOSE k \in 1..4 : t[k] # 0 /\ \A j \in (k + 1)..4 : t[j] = 0
        be == CASE i = 4 -> << t[4], t[3], t[2], t[1] >>
                [] i = 3 -> << t[3], t[2], t[1], 0 >>
                [] i = 2 -> << t[2], t[1], 0, 0 >>
                [] OTHER -> << t[1], 0, 0, 0 >>
        s1 == [s EXCEPT !.c = s.p + 1, !.p = s.p + 1,
                        !.dots = IF dotted THEN s.dots + 1 ELSE s.dots]
    IN  IF ~r.ok THEN [s1 EXCEPT !.t = t, !.check_num = FALSE]
        ELSE IF s.p # end
        THEN [s1 EXCEPT !.t = be, !.i = i, !.n = OrShifted(s.n, be, s.shift),
                        !.shift = (IF i = 0 THEN s.shift + 8 ELSE s.shift) + 8 * i]
        ELSE [s1 EXCEPT !.t = be, !.i = i]

\* the while loop of the numeric notation, on s = [p, c, n, dots, shift, t,
\* i, check_num, too_long]
RECURSIVE IsIpLoop(_, _, _)
IsIpLoop(m, end, s) ==
    IF ~(s.p <= end /\ s.check_num) \/ s.too_long THEN s
    ELSE IF ~(/\ s.shift < 32
              /\ \/ At(m, s.p) = "." /\ s.dots < 3
                 \/ s.p = end /\ s.dots <= 3)
    THEN IsIpLoop(m, end, [s EXCEPT !.p = s.p + 1])
    ELSE IF s.p - s.c + 1 >= 47
    THEN [s EXCEPT !.too_long = TRUE]
    ELSE IsIpLoop(m, end,
                  IsIpPart(s, end, s.p < end /\ At(m, s.p) = ".",
                           strtoul0(rspamd_strlcpy(m, s.c, s.p - s.c + 1))))

\* the end pointer after the trailing dots were dropped
RECURSIVE StripDots(_, _, _)
StripDots(m, p, end) ==
    IF At(m, end - 1) = "." /\ end > p THEN StripDots(m, p, end - 1) ELSE end

\* the record after the host was rewritten as the text of an address
Numeric(uri, text, flags) ==
    [uri EXCEPT !.host_pool = text, !.in_pool = TRUE, !.host = 0, !.hostlen = Len(text),
                !.tld = 0, !.tldlen = Len(text), !.flags = uri.flags \cup flags]

\* mutation of IsIpConvert: the dotted-quad branch sets the flag of the
\* numeric notation too
IsIpConvertAllObscured(uri, len, in4, in6, s) ==
    IF len > 46 THEN [ret |-> FALSE, uri |-> uri]
    ELSE IF in4 # << >>
    THEN [ret |-> TRUE, uri |-> Numeric(uri, inet_ntop4(in4),
                                    { "RSPAMD_URL_FLAG_NUMERIC", "RSPAMD_URL_FLAG_OBSCURED" })]
    ELSE IF in6 # << >>
    THEN [ret |-> TRUE, uri |-> Numeric(uri, inet_ntop6(in6), { "RSPAMD_URL_FLAG_NUMERIC" })]
    ELSE IF ~s.too_long /\ s.check_num /\ s.dots <= 4
    THEN [ret |-> TRUE,
          uri |-> Numeric(uri,
                          inet_ntop4(IF s.i = 0 THEN s.n
                                     ELSE OrShifted(s.n, s.t, 8 * (4 - s.i))),
                          { "RSPAMD_URL_FLAG_NUMERIC", "RSPAMD_URL_FLAG_OBSCURED" })]
    ELSE [ret |-> FALSE, uri |-> uri]

\* the conversions of rspamd_url_is_ip on the host text [p, end) of m: in4
\* and in6 are what inet_pton made of it (empty on failure), and s is the
\* state the loop of the numeric notation ended in
\* (when the last part is 0, i is 0 and the code shifts t = 0 by 32 bits,
\* which C leaves undefined; a shift that takes the count modulo 32 and one
\* that shifts everything out both give 0, so n stays as it is)
IsIpConvert(uri, len, in4, in6, s) ==
    IF len > 46 THEN [ret |-> FALSE, uri |-> uri]
    ELSE IF in4 # << >>
    THEN [ret |-> TRUE, uri |-> Numeric(uri, inet_ntop4(in4), { "RSPAMD_URL_FLAG_NUMERIC" })]
    ELSE IF in6 # << >>
    THEN [ret |-> TRUE, uri |-> Numeric(uri, inet_ntop6(in6), { "RSPAMD_URL_FLAG_NUMERIC" })]
    ELSE IF ~s.too_long /\ s.check_num /\ s.dots <= 4
    THEN [ret |-> TRUE,
          uri |-> Numeric(uri,
                          inet_ntop4(IF s.i = 0 THEN s.n
                                     ELSE OrShifted(s.n, s.t, 8 * (4 - s.i))),
                          { "RSPAMD_URL_FLAG_NUMERIC", "RSPAMD_URL_FLAG_OBSCURED" })]
    ELSE [ret |-> FALSE, uri |-> uri]

IsIpText(uri, m, p, end, buf) ==
    IsIpConvert(uri, end - p, inet_pton4(buf), inet_pton6(buf),
                IsIpLoop(m, end, [p |-> p, c |-> p, n |-> << 0, 0, 0, 0 >>, dots |-> 0,
                                  shift |-> 0, t |-> << 0, 0, 0, 0 >>, i |-> 0,
                                  check_num |-> TRUE, too_long |-> FALSE]))

IsIpBounds(uri, m, p, end) == IsIpText(uri, m, p, end, rspamd_strlcpy(m, p, end - p + 1))

\* the host without its brackets, when br tells that it has them, and
\* without its trailing dots
IsIpBrackets(uri, p, end, br) ==
    IsIpBounds(uri, uri.string, IF br THEN p + 1 ELSE p,
               StripDots(uri.string, IF br THEN p + 1 ELSE p, IF br THEN end - 1 ELSE end))

rspamd_url_is_ip(uri) ==
    IsIpBrackets(uri, uri.host, uri.host + uri.hostlen,
                 /\ At(uri.string, uri.host) = "["
                 /\ At(uri.string, uri.host + uri.hostlen - 1) = "]")

(***************************************************************************)
(* rspamd_url_parse (uri, uristring, len, pool).  The result holds the     *)
(* return code rc, the record uri as the function leaves it, and what the  *)
(* TLD stage did: tld_strnum is the matcher whose hit the TLD callback     *)
(* accepted (0 when none), ip_tried tells whether rspamd_url_is_ip was     *)
(* called and ip_ok what it returned; host_text is the host as the TLD     *)
(* stage found it, decoded and folded.                                     *)
(***************************************************************************)
protocols == <<
    [proto |-> "PROTOCOL_FILE", name |-> << "f", "i", "l", "e" >>],
    [proto |-> "PROTOCOL_FTP", name |-> << "f", "t", "p" >>],
    [proto |-> "PROTOCOL_HTTP", name |-> << "h", "t", "t", "p" >>],
    [proto |-> "PROTOCOL_HTTPS", name |-> << "h", "t", "t", "p", "s" >>],
    [proto |-> "PROTOCOL_MAILTO", name |-> << "m", "a", "i", "l", "t", "o" >>],
    [proto |-> "PROTOCOL_UNKNOWN", name |-> << >>] >>

\* the first entry of protocols with the length and the bytes of the scheme
ProtocolLookup(scheme) ==
    LET hit == { i \in 1..Len(protocols) : protocols[i].name = scheme }
    IN  IF hit = {} THEN "PROTOCOL_UNKNOWN"
        ELSE protocols[CHOOSE i \in hit : \A j \in hit : i <= j].proto

\* the parser rspamd_url_parse chooses, in strict mode
StrictParse(uristring, len) ==
    IF len > 7 /\ LowerSeq(Comp(uristring, 0, 7)) = << "m", "a", "i", "l", "t", "o", ":" >>
    THEN rspamd_mailto_parse(uristring, 0, len, TRUE)
    ELSE rspamd_web_parse(uristring, 0, len, TRUE)

\* mutation of UrlComponents: the UF_USERINFO case of the switch is missing
UrlComponentsNoUserinfo(u, p, len) ==
    LET f(name) == u.fd[name]
        ptr(name) == IF f(name).set THEN f(name).off ELSE -1
        ln(name) == IF f(name).set THEN f(name).len ELSE 0
    IN  [ZeroUri EXCEPT !.string = p, !.urllen = len,
                        !.protocollen = ln("UF_SCHEMA"),
                        !.host = ptr("UF_HOST"), !.hostlen = ln("UF_HOST"),
                        !.data = ptr("UF_PATH"), !.datalen = ln("UF_PATH"),
                        !.query = ptr("UF_QUERY"), !.querylen = ln("UF_QUERY"),
                        !.fragment = ptr("UF_FRAGMENT"), !.fragmentlen = ln("UF_FRAGMENT"),
                        !.port = u.port]

\* the components of u copied into the record, over the buffer p of len bytes
UrlComponents(u, p, len) ==
    LET f(name) == u.fd[name]
        ptr(name) == IF f(name).set THEN f(name).off ELSE -1
        ln(name) == IF f(name).set THEN f(name).len ELSE 0
    IN  [ZeroUri EXCEPT !.string = p, !.urllen = len,
                        !.protocollen = ln("UF_SCHEMA"),
                        !.host = ptr("UF_HOST"), !.hostlen = ln("UF_HOST"),
                        !.data = ptr("UF_PATH"), !.datalen = ln("UF_PATH"),
                        !.query = ptr("UF_QUERY"), !.querylen = ln("UF_QUERY"),
                        !.fragment = ptr("UF_FRAGMENT"), !.fragmentlen = ln("UF_FRAGMENT"),
                        !.user = ptr("UF_USERINFO"), !.userlen = ln("UF_USERINFO"),
                        !.port = u.port]

\* the percent-decoding of the five components, each followed by its shift
DecodeSchema(uri) == DecodeShift(uri, 0, uri.protocollen, "UF_SCHEMA")

DecodeHost(uri) == DecodeShift(uri, uri.host, uri.hostlen, "UF_HOST")

DecodePath(uri) ==
    IF uri.datalen # 0 THEN DecodeShift(uri, uri.data, uri.datalen, "UF_PATH") ELSE uri

DecodeQuery(uri) ==
    IF uri.querylen # 0 THEN DecodeShift(uri, uri.query, uri.querylen, "UF_QUERY") ELSE uri

DecodeFragment(uri) ==
    IF uri.fragmentlen # 0
    THEN DecodeShift(uri, uri.fragment, uri.fragmentlen, "UF_FRAGMENT")
    ELSE uri

UrlDecode(uri) == DecodeFragment(DecodeQuery(DecodePath(DecodeHost(DecodeSchema(uri)))))

\* mutation of UrlLowercase: only the scheme is folded, the host is left
UrlLowercaseSchemeOnly(uri) ==
    [uri EXCEPT !.string = WriteAt(uri.string, 0, rspamd_str_lc(Comp(uri.string, 0, uri.protocollen)))]

\* rspamd_str_lc on the scheme, then rspamd_str_lc_utf8 on the host
UrlLowercase(uri) ==
    LET s1 == WriteAt(uri.string, 0, rspamd_str_lc(Comp(uri.string, 0, uri.protocollen)))
    IN  [uri EXCEPT !.string = WriteAt(s1, uri.host,
                                       rspamd_str_lc_utf8(Comp(s1, uri.host, uri.hostlen)))]

\* what the TLD stage reports when the function returned before it
NoTld == [tld_strnum |-> 0, ip_tried |-> FALSE, ip_ok |-> FALSE, host_text |-> << >>]

\* the end of rspamd_url_parse: t is what the lookup of the suffixes in the
\* host returned and ip what rspamd_url_is_ip returns when it is called
ParseClassified(uri, t, ip) ==
    LET tl == [tld_strnum |-> t.strnum, ip_tried |-> t.ret = 0, ip_ok |-> t.ret = 0 /\ ip.ret,
              host_text |-> HostOf(uri)]
    IN  IF t.ret = 0 /\ ~ip.ret
        THEN [rc |-> "URI_ERRNO_TLD_MISSING", uri |-> uri] @@ tl
        ELSE IF uri.protocol = "PROTOCOL_UNKNOWN"
        THEN [rc |-> "URI_ERRNO_INVALID_PROTOCOL", uri |-> IF t.ret # 0 THEN t.url ELSE ip.uri] @@ tl
        ELSE [rc |-> "URI_ERRNO_OK", uri |-> IF t.ret # 0 THEN t.url ELSE ip.uri] @@ tl

\* the lookup of the suffixes in the host, and the numeric notations
ParseTld(uri) ==
    ParseClassified(uri, TldLookup(uri, AcHits(HostOf(uri), << >>), 1), rspamd_url_is_ip(uri))

\* the comparison of the scheme with the table of protocols
ParseProtocol(uri) == ParseTld([uri EXCEPT !.protocol = ProtocolLookup(SchemeOf(uri))])

\* the record after the components were copied: a missing host ends the
\* function, otherwise the components are decoded and folded
ParseComponents(uri) ==
    IF uri.hostlen = 0
    THEN [rc |-> "URI_ERRNO_HOST_MISSING",
          uri |-> [uri EXCEPT !.string = << >>, !.urllen = 0]] @@ NoTld
    ELSE ParseProtocol(UrlLowercase(UrlDecode(uri)))

\* r is what the parser returned: the buffer is copied and cut when the
\* parser stopped before the end
ParseParsed(uristring, len, r) ==
    IF r.ret # 0
    THEN [rc |-> "URI_ERRNO_BAD_FORMAT", uri |-> ZeroUri] @@ NoTld
    ELSE ParseComponents(
            UrlComponents(r.u,
                          IF r.end > 0 /\ r.end # len
                          THEN rspamd_strlcpy(uristring, 0, r.end + 1) ELSE uristring,
                          IF r.end > 0 /\ r.end # len THEN r.end ELSE len))

rspamd_url_parse(uristring, len) ==
    IF At(uristring, 0) = NUL
    THEN [rc |-> "URI_ERRNO_EMPTY", uri |-> ZeroUri] @@ NoTld
    ELSE ParseParsed(uristring, len, StrictParse(uristring, len))

(***************************************************************************)
(* The inputs of rspamd_url_parse: a prefix (scheme and userinfo), a host, *)
(* a port and a tail, each drawn from a table whose first entry is the     *)
(* plain one.  An input differs from http://example.com in at most MaxDev  *)
(* of its four parts.                                                      *)
(***************************************************************************)
MaxDev == 3

Prefixes == <<
    << "h", "t", "t", "p", ":", "/", "/" >>,
    << "H", "T", "T", "P", "S", ":", "/", "/" >>,
    << "f", "t", "p", ":", "/", "/" >>,
    << "f", "i", "l", "e", ":", "/", "/" >>,
    << "m", "a", "i", "l", "t", "o", ":", "b", "o", "b", "@" >>,
    << "M", "a", "i", "l", "T", "o", ":", "B", "o", "b", "@" >>,
    << "m", "a", "i", "l", "t", "o", ":" >>,
    << "m", "a", "i", "l", "t", "o", ":", "?", "t", "o", "=", "b", "o", "b", "@" >>,
    << "s", "i", "p", ":" >>,
    << "g", "o", "p", "h", "e", "r", ":", "/", "/" >>,
    << >>,
    << "h", "t", "t", "p", ":", "/", "/", "u", ":", "p", "@" >>,
    << "h", "t", "t", "p", ":", "/", "/", "b", "o", "b", "@" >>,
    << "h", "t", "t", "p", ":", "/", "/", "u", ":", "@" >> >>

Hosts == <<
    << "e", "x", "a", "m", "p", "l", "e", ".", "c", "o", "m" >>,
    << "E", "x", "a", "m", "p", "l", "e", ".", "C", "O", "M" >>,
    << "w", "w", "w", ".", "x" >>,
    << "f", "o", "o", ".", "b", "a", "r" >>,
    << "1", "2", "7", ".", "0", ".", "0", ".", "1" >>,
    << "0", "x", "7", "f", ".", "1" >>,
    << "[", ":", ":", "1", "]" >>,
    << "a", ".", "c", "o", ".", "u", "k" >>,
    << "%", "4", "1", ".", "c", "o", "m" >>,
    << "x", ".", "y", ".", "c", "k" >>,
    << "e", "x", "a", "m", "p", "l", "e", ".", "c", "o", "m", "." >>,
    << "1", "9", "2", ".", "1", "6", "8", ".", "1" >>,
    << "xC3", "x89", ".", "c", "o", "m" >>,
    << "x", ".", "n", "e", "t", "s" >>,
    << "w", "w", "w", ".", "e", "x", "a", "m", "p", "l", "e", ".", "c", "o", "m" >>,
    << >>,
    << "2", "1", "3", "0", "7", "0", "6", "4", "3", "3" >>,
    << "0", "1", "7", "7", ".", "0", ".", "1" >>,
    << "1", ".", "2", ".", "3", ".", "4", "." >>,
    << "%", "3", "1", ".", "2", ".", "3", ".", "4" >>,
    << "1", ".", "2", "5", "8" >>,
    << "1", ".", "2", ".", "3", ".", "2", "5", "6" >> >>

Ports == <<
    << >>,
    << ":", "8", "0" >>,
    << ":", "0" >>,
    << ":", "6", "5", "5", "3", "5" >>,
    << ":", "6", "5", "5", "3", "6" >>,
    << ":", "7", "0", "0", "0", "0" >>,
    << ":", "9", "9", "9", "9", "9", "9", "9", "9", "9", "9", "9", "9", "9", "9", "9", "9", "9", "9", "9", "9" >>,
    << ":", "9", "2", "2", "3", "3", "7", "2", "0", "3", "6", "8", "5", "4", "7", "7", "5", "8", "0", "8" >>,
    << ":" >>,
    << ":", "8", "a" >> >>

Tails == <<
    << >>,
    << "/" >>,
    << "/", "%", "2", "5", "4", "1" >>,
    << "/", "a", "%", "4", "1", "?", "b", "=", "%", "4", "2", "#", "c" >>,
    << "?", "q", "=", "1" >>,
    << "#", "f" >>,
    << "/", "p", " ", "q" >>,
    << "/", "%", "z", "z" >>,
    << "?" >> >>

Parts ==
    { q \in [prefix : 1..Len(Prefixes), host : 1..Len(Hosts),
             port : 1..Len(Ports), tail : 1..Len(Tails)] :
        Cardinality({ f \in { "prefix", "host", "port", "tail" } : q[f] # 1 }) <= MaxDev }

UriString(q) == Prefixes[q.prefix] \o Hosts[q.host] \o Ports[q.port] \o Tails[q.tail]

NoResult == [rc |-> "none", uri |-> ZeroUri] @@ NoTld

Idle == [pc |-> "idle"]

(***************************************************************************)
(* Spec: one call of rspamd_url_parse on an input, then a second call on   *)
(* the string and urllen of the record when the first returned OK          *)
(***************************************************************************)
Init ==
    /\ \E q \in Parts :
          pu = [pc |-> "start", parts |-> q, uristring |-> UriString(q),
                res |-> NoResult, again |-> NoResult]
    /\ fu = Idle
    /\ scanner = Initialised
    /\ jobs = << >>

\* rspamd_url_parse (uri, uristring, strlen (uristring), pool)
ParseUrl ==
    /\ pu.pc = "start"
    /\ pu' = [pu EXCEPT !.pc = "parsed",
                        !.res = rspamd_url_parse(pu.uristring, Len(pu.uristring))]
    /\ UNCHANGED << fu, scanner, jobs >>

\* rspamd_url_parse (uri2, uri->string, uri->urllen, pool)
Reparse ==
    /\ pu.pc = "parsed"
    /\ pu.res.rc = "URI_ERRNO_OK"
    /\ pu' = [pu EXCEPT !.pc = "reparsed",
                        !.again = rspamd_url_parse(pu.res.uri.string, pu.res.uri.urllen)]
    /\ UNCHANGED << fu, scanner, jobs >>

Next == ParseUrl \/ Reparse

Spec == Init /\ [][Next]_vars

(***************************************************************************)
(* Properties of rspamd_url_parse, over Spec                               *)
(***************************************************************************)
Parsed == pu.pc # "start"
Accepted == pu.res.rc = "URI_ERRNO_OK"

\* rspamd_url_parse hands the input to rspamd_web_parse
WebInput == ~(Len(pu.uristring) > 7 /\ LowerSeq(Comp(pu.uristring, 0, 7)) = << "m", "a", "i", "l", "t", "o", ":" >>)

\* the digits of the port part of the input, << >> when it has none
PortDigits ==
    LET t == Ports[pu.parts.port]
    IN  IF Len(t) > 1 /\ \A i \in 2..Len(t) : t[i] \in Digit THEN Tail(t) ELSE << >>

\* the decimal value of the port digits lies in 1 .. 65535
PortInRange ==
    LET z == StripZeros(PortDigits)
    IN  z # << >> /\ ~DecLt(PORT_MAX_DEC, z)

\* the same input with its port part removed is accepted
WellFormedWithoutPort ==
    LET q == [pu.parts EXCEPT !.port = 1]
    IN  rspamd_url_parse(UriString(q), Len(UriString(q))).rc = "URI_ERRNO_OK"

GrammarAccepted == Parsed /\ pu.res.rc \notin { "URI_ERRNO_EMPTY", "URI_ERRNO_BAD_FORMAT" }
HostNonEmpty == pu.res.rc # "URI_ERRNO_HOST_MISSING"

\* the TLD callback accepted the hit of a pattern of the suffix list
SuffixAccepted ==
    /\ pu.res.tld_strnum # 0
    /\ "URL_FLAG_TLD_MATCH" \in url_scanner[pu.res.tld_strnum].flags

\* the numeric-host decoder succeeds on the host of the record
NumericDecodes ==
    IF pu.res.ip_tried THEN pu.res.ip_ok ELSE rspamd_url_is_ip(pu.res.uri).ret

KnownSchemes == { protocols[i].name : i \in 1..5 }

\* C4: every record rspamd_url_parse returns with OK has a non-empty
\* userinfo when its scheme is mailto and a non-empty host when it is not
C4_MailtoHasUserElseHost ==
    Accepted =>
        IF SchemeOf(pu.res.uri) = << "m", "a", "i", "l", "t", "o" >>
        THEN pu.res.uri.userlen > 0
        ELSE pu.res.uri.hostlen > 0

\* an accepted mailto URL, its userinfo coming from the strict mailto parser
C4_Witness ==
    /\ Accepted
    /\ pu.res.uri.protocol = "PROTOCOL_MAILTO"
    /\ UserOf(pu.res.uri) = << "b", "o", "b" >>
    /\ pu.res.uri.hostlen > 0

\* C5: a web URL whose port text is a string of decimal digits is rejected
\* unless the decimal value of the text is in 1 .. 65535, whatever its
\* length; so the port of an accepted URL is 0 or in 1 .. 65535
C5_PortValueInRange ==
    (Parsed /\ WebInput /\ PortDigits # << >>) =>
        /\ ~PortInRange => ~Accepted
        /\ Accepted => pu.res.uri.port \in 0..65535

\* C6: an otherwise well-formed URL whose port is not in 1 .. 65535 makes
\* rspamd_url_parse return URI_ERRNO_INVALID_PORT
C6_InvalidPortReturned ==
    (Parsed /\ WebInput /\ PortDigits # << >> /\ ~PortInRange /\ WellFormedWithoutPort) =>
        pu.res.rc = "URI_ERRNO_INVALID_PORT"

\* C7: the numeric-host decoder is consulted only when no suffix rule was
\* accepted; URI_ERRNO_TLD_MISSING is returned exactly when the grammar was
\* accepted, the host is non-empty, no suffix rule was accepted and the
\* numeric decoder fails; a host with an accepted suffix rule is never
\* rewritten as numeric
C7_TldMissingExactly ==
    Parsed =>
        /\ pu.res.ip_tried => ~SuffixAccepted
        /\ pu.res.rc = "URI_ERRNO_TLD_MISSING"
              <=> (GrammarAccepted /\ HostNonEmpty /\ ~SuffixAccepted /\ ~NumericDecodes)
        /\ SuffixAccepted => ~pu.res.uri.in_pool

\* C8: URI_ERRNO_INVALID_PROTOCOL is returned if and only if the grammar was
\* accepted, the host is non-empty and classified by a suffix rule or as
\* numeric, and the scheme is none of file, ftp, http, https, mailto in any
\* letter case; every record returned with OK has its scheme in lower case
\* and among those five
C8_InvalidProtocolExactly ==
    Parsed =>
        /\ pu.res.rc = "URI_ERRNO_INVALID_PROTOCOL"
              <=> /\ GrammarAccepted /\ HostNonEmpty
                  /\ SuffixAccepted \/ NumericDecodes
                  /\ LowerSeq(SchemeOf(pu.res.uri)) \notin KnownSchemes
        /\ Accepted => SchemeOf(pu.res.uri) \in KnownSchemes

\* the fields of a record that the second parse has to reproduce
RecordOf(uri) ==
    [ raw |-> Comp(uri.string, 0, uri.urllen), scheme |-> SchemeOf(uri),
      userinfo |-> UserOf(uri), host |-> HostOf(uri), port |-> uri.port,
      path |-> DataOf(uri), query |-> QueryOf(uri), fragment |-> FragmentOf(uri),
      tld |-> TldOf(uri), flags |-> uri.flags ]

\* C9: rspamd_url_parse on the string and urllen of an accepted record is
\* accepted again and yields the same raw, scheme, userinfo, host, port,
\* path, query, fragment, tld and flags
C9_ReparseIsIdentity ==
    pu.pc = "reparsed" =>
        /\ pu.again.rc = "URI_ERRNO_OK"
        /\ RecordOf(pu.again.uri) = RecordOf(pu.res.uri)

\* C10: the host of every record rspamd_url_parse returns with OK has no
\* ASCII uppercase byte, also when the byte came out of a percent-escape
C10_HostHasNoUppercase ==
    Accepted => \A i \in 1..pu.res.uri.hostlen : HostOf(pu.res.uri)[i] \notin Upper

\* http://%41.com is accepted with the host a.com
C10_Witness ==
    /\ Accepted
    /\ Hosts[pu.parts.host] = << "%", "4", "1", ".", "c", "o", "m" >>
    /\ HostOf(pu.res.uri) = << "a", ".", "c", "o", "m" >>

(***************************************************************************)
(* The start and end probes of the matchers.  m is the memory of the text  *)
(* part followed by the byte that happens to lie behind it; positions are  *)
(* offsets into m; cb is struct url_callback_data.  A start probe yields   *)
(* [ok, m_begin, last_at] and an end probe [ok, m_begin, m_len, last_at].  *)
(***************************************************************************)
url_file_start(cb, pos) == [ok |-> TRUE, m_begin |-> pos, last_at |-> cb.last_at]

RECURSIVE FileEndLoop(_, _, _, _)
FileEndLoop(m, cb, p, stop) ==
    IF p < cb.end /\ At(m, p) # stop /\ is_urlsafe(At(m, p))
    THEN FileEndLoop(m, cb, p + 1, stop)
    ELSE p

url_file_end(m, cb, pos, match) ==
    LET p0 == pos + Len(match.pattern)
        p1 == IF At(m, p0) = "/" THEN p0 + 1 ELSE p0
        stop == CASE At(m, p1) = "(" -> ")"
                  [] At(m, p1) = "{" -> "}"
                  [] At(m, p1) = "[" -> "]"
                  [] OTHER -> At(m, p0)
        p == FileEndLoop(m, cb, p1, stop)
    IN  [ok |-> p # cb.begin, m_begin |-> match.m_begin, m_len |-> p - match.m_begin,
         last_at |-> cb.last_at]

RECURSIVE url_tld_start_loop(_, _, _, _)
url_tld_start_loop(m, cb, pos, p) ==
    LET no == [ok |-> FALSE, m_begin |-> -1, last_at |-> cb.last_at]
        yes(b) == [ok |-> TRUE, m_begin |-> b, last_at |-> cb.last_at]
        t == At(m, p)
    IN  IF p < cb.begin THEN no
        ELSE IF (~is_domain(t) /\ t # "." /\ t # "/") \/ g_ascii_isspace(t)
        THEN IF ~is_url_start(t) /\ ~g_ascii_isspace(t) THEN no
             ELSE IF ~g_ascii_isalnum(At(m, p + 1)) THEN no
             ELSE yes(p + 1)
        ELSE IF p = cb.begin /\ p # pos THEN yes(p)
        ELSE IF t = "." /\ (p = cb.begin \/ ~g_ascii_isalnum(At(m, p + 1))) THEN no
        ELSE IF t = "/" THEN no
        ELSE url_tld_start_loop(m, cb, pos, p - 1)

url_tld_start(m, cb, pos) == url_tld_start_loop(m, cb, pos, pos)

url_web_start(m, cb, pos) ==
    LET three == LowerSeq(Comp(m, pos, 3))
        t == At(m, pos - 1)
    IN  IF /\ pos > cb.begin
           /\ three \in { << "w", "w", "w" >>, << "f", "t", "p" >> }
           /\ ~is_url_start(t) /\ ~g_ascii_isspace(t)
        THEN [ok |-> FALSE, m_begin |-> -1, last_at |-> cb.last_at]
        ELSE IF At(m, pos) = "."
        THEN [ok |-> FALSE, m_begin |-> -1, last_at |-> cb.last_at]
        ELSE [ok |-> TRUE, m_begin |-> pos, last_at |-> cb.last_at]

\* mutation of WebEndParsed: the match takes the byte the parser stopped at
WebEndParsedPastEnd(cb, pos, match, r) ==
    [ok |-> r.ret = 0, m_begin |-> match.m_begin, m_len |-> r.end - pos + 1,
     last_at |-> cb.last_at]

WebEndParsed(cb, pos, match, r) ==
    [ok |-> r.ret = 0, m_begin |-> match.m_begin, m_len |-> r.end - pos,
     last_at |-> cb.last_at]

url_web_end(m, cb, pos, match) ==
    WebEndParsed(cb, pos, match, rspamd_web_parse(m, pos, cb.end - pos, FALSE))

url_tld_end(m, cb, pos, match) ==
    LET p == pos + Len(match.pattern)
        t == At(m, p)
        t1 == At(m, p + 1)
        no == [ok |-> FALSE, m_begin |-> match.m_begin, m_len |-> 0, last_at |-> cb.last_at]
    IN  IF p = cb.end \/ g_ascii_isspace(t) \/ t = ","
        THEN [ok |-> TRUE, m_begin |-> match.m_begin, m_len |-> p - match.m_begin,
              last_at |-> cb.last_at]
        ELSE IF \/ t = "/" \/ t = ":"
                \/ /\ t = "." /\ p + 1 < cb.end
                   /\ (g_ascii_isspace(t1) \/ t1 \in { "/", "?", ":" })
        THEN url_web_end(m, cb,
                         IF /\ t = "/" \/ t = ":"
                            /\ LowerSeq(Comp(m, match.m_begin, 7))
                                  = << "h", "t", "t", "p", ":", "/", "/" >>
                         THEN match.m_begin + 7 ELSE match.m_begin,
                         match)
        ELSE no

url_email_start(cb, pos, match) ==
    IF match.prefix = << >>
    THEN [ok |-> TRUE, m_begin |-> pos, last_at |-> cb.last_at]
    ELSE IF cb.last_at # -1 /\ cb.last_at = pos
    THEN [ok |-> FALSE, m_begin |-> match.m_begin, last_at |-> -1]
    ELSE [ok |-> TRUE, m_begin |-> match.m_begin, last_at |-> cb.last_at]

\* the loops of url_email_end around a bare '@'
RECURSIVE EmailBack(_, _, _)
EmailBack(m, cb, c) ==
    IF c > cb.begin /\ is_mailsafe(At(m, c)) THEN EmailBack(m, cb, c - 1) ELSE c

RECURSIVE EmailAlnum(_, _, _)
EmailAlnum(m, pos, c) ==
    IF c < pos /\ ~g_ascii_isalnum(At(m, c)) THEN EmailAlnum(m, pos, c + 1) ELSE c

RECURSIVE EmailDomain(_, _, _)
EmailDomain(m, cb, p) ==
    IF p < cb.end /\ is_domain(At(m, p)) THEN EmailDomain(m, cb, p + 1) ELSE p

RECURSIVE EmailRewind(_, _, _, _)
EmailRewind(m, cb, pos, p) ==
    IF p > pos /\ p < cb.end /\ ~g_ascii_isalnum(At(m, p))
    THEN EmailRewind(m, cb, pos, p - 1)
    ELSE p

\* the branch of url_email_end for the mailto: pattern: r is what
\* rspamd_mailto_parse returned
EmailEndParsed(cb, pos, match, r) ==
    LET ui == r.u.fd["UF_USERINFO"]
    IN  IF r.ret # 0 \/ ~ui.set
        THEN [ok |-> FALSE, m_begin |-> match.m_begin, m_len |-> 0, last_at |-> cb.last_at]
        ELSE [ok |-> TRUE, m_begin |-> match.m_begin, m_len |-> r.end - pos,
              last_at |-> match.m_begin + ui.off + ui.len]

url_email_end(m, cb, pos, match) ==
    LET no == [ok |-> FALSE, m_begin |-> match.m_begin, m_len |-> 0, last_at |-> cb.last_at]
    IN  IF match.prefix = << >>
        THEN EmailEndParsed(cb, pos, match, rspamd_mailto_parse(m, pos, cb.end - pos, FALSE))
        ELSE IF pos >= cb.end - 2 \/ pos <= cb.begin + 1 THEN no
        ELSE IF ~g_ascii_isalnum(At(m, pos + 1)) \/ ~g_ascii_isalnum(At(m, pos - 1)) THEN no
        ELSE LET c == EmailAlnum(m, pos, EmailBack(m, cb, pos - 1))
                 p1 == EmailRewind(m, cb, pos, EmailDomain(m, cb, pos + 1))
                 p == IF p1 < cb.end /\ g_ascii_isalnum(At(m, p1)) THEN p1 + 1 ELSE p1
             IN  IF p > c
                 THEN [ok |-> TRUE, m_begin |-> c, m_len |-> p - c, last_at |-> cb.last_at]
                 ELSE no

(***************************************************************************)
(* rspamd_url_trie_callback and rspamd_url_find                            *)
(***************************************************************************)
\* the check of the byte behind the hit of a suffix-list pattern
TldFollowOk(m, cb, textpos) ==
    LET pos == cb.begin + textpos
        sep(t) == g_ascii_isspace(t) \/ t \in { "/", "?", ":" }
    IN  \/ pos >= cb.end
        \/ sep(At(m, pos))
        \/ At(m, pos) = "." /\ (pos + 1 >= cb.end \/ sep(At(m, pos + 1)))

MatcherStart(m, cb, pos, match, kind) ==
    CASE kind = "file" -> url_file_start(cb, pos)
      [] kind = "web" -> url_web_start(m, cb, pos)
      [] kind = "tld" -> url_tld_start(m, cb, pos)
      [] kind = "email" -> url_email_start(cb, pos, match)

MatcherEnd(m, cb, pos, match, kind) ==
    CASE kind = "file" -> url_file_end(m, cb, pos, match)
      [] kind = "web" -> url_web_end(m, cb, pos, match)
      [] kind = "tld" -> url_tld_end(m, cb, pos, match)
      [] kind = "email" -> url_email_end(m, cb, pos, match)

\* the end of rspamd_url_trie_callback: en is what the end probe returned
CallbackEnd(m, cb, matcher, en) ==
    IF ~en.ok
    THEN [ret |-> 0, cb |-> [cb EXCEPT !.last_at = en.last_at, !.has_str = FALSE,
                                       !.url_str = << >>]]
    ELSE [ret |-> 1,
          cb |-> [cb EXCEPT !.last_at = en.last_at, !.has_str = TRUE,
                            !.url_str = CStr(matcher.prefix \o Comp(m, en.m_begin, en.m_len)),
                            !.start = en.m_begin, !.fin = en.m_begin + en.m_len]]

\* st is what the start probe returned, cb the callback data it left
CallbackStart(m, cb, matcher, pos, st) ==
    IF ~st.ok
    THEN [ret |-> 0, cb |-> [cb EXCEPT !.has_str = FALSE, !.url_str = << >>]]
    ELSE CallbackEnd(m, cb, matcher,
                     MatcherEnd(m, cb, pos,
                                [pattern |-> matcher.pattern, prefix |-> matcher.prefix,
                                 m_begin |-> st.m_begin],
                                matcher.kind))

CallbackProbe(m, cb, matcher, pos, st) ==
    CallbackStart(m, [cb EXCEPT !.last_at = st.last_at], matcher, pos, st)

CallbackMatcher(m, cb, matcher, textpos) ==
    IF "URL_FLAG_NOHTML" \in matcher.flags /\ cb.is_html
    THEN [ret |-> 0, cb |-> cb]
    ELSE IF "URL_FLAG_TLD_MATCH" \in matcher.flags /\ ~TldFollowOk(m, cb, textpos)
    THEN [ret |-> 0, cb |-> cb]
    ELSE CallbackProbe(m, cb, matcher, cb.begin + textpos - Len(matcher.pattern),
                       MatcherStart(m, cb, cb.begin + textpos - Len(matcher.pattern),
                                    [pattern |-> matcher.pattern, prefix |-> matcher.prefix,
                                     m_begin |-> -1],
                                    matcher.kind))

rspamd_url_trie_callback(m, cb, strnum, textpos) ==
    CallbackMatcher(m, cb, url_scanner[strnum], textpos)

\* acism_lookup with rspamd_url_trie_callback over the hits from the j-th on
RECURSIVE UrlLookup(_, _, _, _)
UrlLookupHit(m, hits, j, r) ==
    IF r.ret # 0 THEN [ret |-> r.ret, cb |-> r.cb, textpos |-> hits[j].textpos]
    ELSE UrlLookup(m, r.cb, hits, j + 1)

UrlLookup(m, cb, hits, j) ==
    IF j > Len(hits) THEN [ret |-> 0, cb |-> cb, textpos |-> cb.end - cb.begin]
    ELSE UrlLookupHit(m, hits, j,
                      rspamd_url_trie_callback(m, cb, hits[j].strnum, hits[j].textpos))

\* rspamd_url_find (pool, begin, len, &start, &fin, &url_str, is_html, statep)
FindResult(text, state, r) ==
    [found |-> r.ret # 0, start |-> r.cb.start, fin |-> r.cb.fin,
     url_str |-> r.cb.url_str, state |-> AcState(text, state, r.textpos)]

FindText(m, cb, text, state) ==
    FindResult(text, state, UrlLookup(m, cb, AcHits(text, state), 1))

rspamd_url_find(m, begin, len, is_html, state) ==
    FindText(m,
             [begin |-> begin, end |-> begin + len, is_html |-> is_html, start |-> -1,
              fin |-> -1, has_str |-> FALSE, url_str |-> << >>, last_at |-> -1],
             Comp(m, begin, len), state)

\* g_strstrip on a C string
RECURSIVE g_strstrip(_)
g_strstrip(str) ==
    IF str # << >> /\ g_ascii_isspace(str[1]) THEN g_strstrip(Tail(str))
    ELSE IF str # << >> /\ g_ascii_isspace(str[Len(str)]) THEN g_strstrip(SubSeq(str, 1, Len(str) - 1))
    ELSE str

(***************************************************************************)
(* rspamd_url_text_extract: one iteration of its while loop on the scan    *)
(* state f.  urls and emails are the keys of the two hash tables, the text *)
(* of each URL, and records what the inserted records hold; urls_offset    *)
(* is the list of the exceptions, the latest first.  p_prev, found, start, *)
(* fin, rc and emitted remember the iteration.                             *)
(***************************************************************************)
\* the search of the query of an accepted URL for one more URL
QueryParsed(q) == IF q.rc = "URI_ERRNO_OK" THEN { q.uri } ELSE { }

QueryFound(r) ==
    IF r.found THEN QueryParsed(rspamd_url_parse(r.url_str, Len(r.url_str))) ELSE { }

\* mutation of QueryUrl: the query is not searched
QueryUrlSkipped(url, is_html) == { }

QueryUrl(url, is_html) ==
    IF url.querylen > 0
    THEN QueryFound(rspamd_url_find(url.string, url.query, url.querylen, is_html, << >>))
    ELSE { }

\* the key of a record in the hash tables
UrlKey(url) == Comp(url.string, 0, url.urllen)

\* mutation of ExtractInsert: the next search begins one byte behind the
\* start of the candidate, not behind its end
ExtractInsertRescans(f, r, u, nested) ==
    LET url == u.uri
        ok == u.rc = "URI_ERRNO_OK" /\ url.hostlen > 0
        mail == url.protocol = "PROTOCOL_MAILTO"
    IN  [f EXCEPT !.p = r.start + 1, !.rc = u.rc, !.emitted = ok,
                  !.emails = IF ok /\ mail /\ url.userlen > 0 THEN @ \cup { UrlKey(url) } ELSE @,
                  !.urls = IF ok THEN (IF mail THEN @ ELSE @ \cup { UrlKey(url) })
                                      \cup { UrlKey(n) : n \in nested }
                           ELSE @,
                  !.records = IF ok THEN (IF mail /\ url.userlen = 0 THEN @
                                          ELSE @ \cup { RecordOf(url) })
                                         \cup { RecordOf(n) : n \in nested }
                              ELSE @,
                  !.urls_offset = IF ok
                                  THEN << [pos |-> r.start, len |-> r.fin - r.start] >> \o @
                                  ELSE @]

\* the iteration after the candidate r was parsed: u is what rspamd_url_parse
\* returned, and nested the records found in the query of an accepted URL
ExtractInsert(f, r, u, nested) ==
    LET url == u.uri
        ok == u.rc = "URI_ERRNO_OK" /\ url.hostlen > 0
        mail == url.protocol = "PROTOCOL_MAILTO"
    IN  [f EXCEPT !.p = r.fin + 1, !.rc = u.rc, !.emitted = ok,
                  !.emails = IF ok /\ mail /\ url.userlen > 0 THEN @ \cup { UrlKey(url) } ELSE @,
                  !.urls = IF ok THEN (IF mail THEN @ ELSE @ \cup { UrlKey(url) })
                                      \cup { UrlKey(n) : n \in nested }
                           ELSE @,
                  !.records = IF ok THEN (IF mail /\ url.userlen = 0 THEN @
                                          ELSE @ \cup { RecordOf(url) })
                                         \cup { RecordOf(n) : n \in nested }
                              ELSE @,
                  !.urls_offset = IF ok
                                  THEN << [pos |-> r.start, len |-> r.fin - r.start] >> \o @
                                  ELSE @]

ExtractParsed(f, r, u) == ExtractInsert(f, r, u, QueryUrl(u.uri, f.is_html))

ExtractStripped(f, r, url_str) == ExtractParsed(f, r, rspamd_url_parse(url_str, Len(url_str)))

\* the iteration after rspamd_url_find returned r
ExtractSearched(f, r) ==
    IF ~r.found THEN [f EXCEPT !.rc = "none", !.emitted = FALSE]
    ELSE ExtractStripped(f, r, g_strstrip(r.url_str))

ExtractRecord(f, r) ==
    ExtractSearched([f EXCEPT !.state = r.state, !.p_prev = f.p, !.iter = f.iter + 1,
                              !.found = r.found, !.start = r.start, !.fin = r.fin],
                    r)

ExtractIter(f) ==
    ExtractRecord(f, rspamd_url_find(f.text \o << f.trail >>, f.p, Len(f.text) - f.p,
                                     f.is_html, f.state))

(***************************************************************************)
(* SpecFind: rspamd_url_text_extract on a text part.  The text is made of  *)
(* at most MaxFrags fragments; trail is the byte that lies behind the text *)
(* in memory, which the probes and the parsers may read.                   *)
(***************************************************************************)
MaxFrags == 2

\* the texts of the worked examples
VisitText ==
    << "v", "i", "s", "i", "t", " ", "h", "t", "t", "p", ":", "/", "/", "e", "x", "a", "m", "p", "l", "e", ".", "c", "o", "m", "/", "p", "a", "t", "h", "?", "x", "=", "1", " ", "t", "o", "d", "a", "y" >>

MailMeText ==
    << "m", "a", "i", "l", " ", "m", "e", " ", "a", "t", " ", "a", "l", "i", "c", "e", "@", "e", "x", "a", "m", "p", "l", "e", ".", "c", "o", ".", "u", "k", " ", "p", "l", "e", "a", "s", "e" >>

ClickText ==
    << "c", "l", "i", "c", "k", " ", "w", "w", "w", ".", "f", "o", "o", ".", "b", "a", "r", ".", "c", "k", "!" >>

HexHostText ==
    << "h", "t", "t", "p", ":", "/", "/", "0", "x", "7", "f", ".", "1", "/" >>

BracketText ==
    << "s", "e", "e", " ", "<", "h", "t", "t", "p", ":", "/", "/", "e", "x", "a", "m", "p", "l", "e", ".", "c", "o", "m", ">", "." >>

DecimalHostText ==
    << "h", "t", "t", "p", ":", "/", "/", "2", "1", "3", "0", "7", "0", "6", "4", "3", "3", "/" >>

OctalHostText ==
    << "h", "t", "t", "p", ":", "/", "/", "0", "1", "7", "7", ".", "0", ".", "1", "/" >>

FourPartHostText ==
    << "h", "t", "t", "p", ":", "/", "/", "1", ".", "2", ".", "3", ".", "0", "1", "0", "/" >>

NestedTwiceText ==
    << "h", "t", "t", "p", ":", "/", "/", "a", ".", "c", "o", "m", "/", "?", "u", "=", "h", "t", "t", "p", ":", "/", "/", "b", ".", "c", "o", "m", "/", "?", "v", "=", "h", "t", "t", "p", ":", "/", "/", "c", ".", "n", "e", "t", "/" >>

\* a mailto: URL and the same address once more behind it
MailTwiceText ==
    << "m", "a", "i", "l", "t", "o", ":", "b", "o", "b", "@", "e", "x", "a", "m", "p", "l", "e", ".", "c", "o", "m", " ", "b", "o", "b", "@", "e", "x", "a", "m", "p", "l", "e", ".", "c", "o", "m" >>

\* a bare domain behind a '-' that is the first byte of the text
DashDomainText ==
    << "-", "x", ".", "n", "e", " " >>

RedirectText ==
    << "h", "t", "t", "p", ":", "/", "/", "r", ".", "e", "x", "a", "m", "p", "l", "e", ".", "c", "o", "m", "/", "?", "u", "=", "h", "t", "t", "p", "%", "3", "A", "%", "2", "F", "%", "2", "F", "b", "a", "d", ".", "e", "x", "a", "m", "p", "l", "e", ".", "n", "e", "t", "%", "2", "F" >>

\* a URL whose query holds an address
QueryMailText ==
    << "h", "t", "t", "p", ":", "/", "/", "x", ".", "c", "o", "m", "/", "?", "u", "=", "b", "o", "b", "@", "e", "x", "a", "m", "p", "l", "e", ".", "c", "o", "m", " " >>

Fragments == <<
    << "h", "t", "t", "p", ":", "/", "/", "[", ":", ":", "1", "]" >>,
    << "x", ".", "n", "e", " " >>,
    << "w", "s", ":", "/", "/", "y", ".", "c", "o", "m" >>,
    << "a", "^", "b", ".", "m", "a", " " >>,
    << "i", "l", "t", "o", ":", "b", "o", "b", "@", "g", "o", "o", "d", ".", "c", "o", "m" >>,
    << "b", "o", "b", "@", "e", "x", "a", "m", "p", "l", "e", ".", "c", "o", "m" >>,
    << "m", "a", "i", "l", "t", "o", ":", "b", "o", "b", "@", "e", "x", "a", "m", "p", "l", "e", ".", "c", "o", "m" >>,
    << " ", "w", "w", "w", ".", "e", "x", "a", "m", "p", "l", "e", ".", "c", "o", "m", "/", "a", " " >>,
    << "h", "t", "t", "p", ":", "/", "/", "e", "x", "a", "m", "p", "l", "e", ".", "c", "o", "m", "/", "p", "?", "u", "=", "h", "t", "t", "p", ":", "/", "/", "a", ".", "c", "o", "m", " " >>,
    << "f", "o", "o", ".", "b", "a", "r", " " >>,
    << "e", "x", "a", "m", "p", "l", "e", ".", "c", "o", ".", "u", "k", "," >>,
    << "<", "h", "t", "t", "p", ":", "/", "/", "E", "x", "a", "m", "p", "l", "e", ".", "C", "O", "M", ":", "8", "0", ">" >>,
    << " " >>,
    << "f", "i", "l", "e", ":", "/", "/", "/", "e", "t", "c", "/", "x", " " >>,
    << "b", ".", "c", ".", "c", "k", ".", " " >>,
    << "f", "t", "p", ".", "x", ".", "c", "o", "m", " " >>,
    VisitText,
    MailMeText,
    ClickText,
    HexHostText,
    BracketText,
    RedirectText,
    DecimalHostText,
    OctalHostText,
    FourPartHostText,
    NestedTwiceText,
    MailTwiceText,
    DashDomainText,
    QueryMailText >>

TrailBytes == { NUL, "/" }

RECURSIVE Concat(_)
Concat(ix) == IF ix = << >> THEN << >> ELSE Fragments[Head(ix)] \o Concat(Tail(ix))

Texts == { Concat(ix) : ix \in UNION { [1..n -> 1..Len(Fragments)] : n \in 0..MaxFrags } }

InitFind ==
    /\ \E text \in Texts, trail \in TrailBytes, is_html \in BOOLEAN :
          fu = [pc |-> "start", text |-> text, trail |-> trail, is_html |-> is_html,
                p |-> 0, state |-> << >>, urls |-> { }, emails |-> { }, records |-> { },
                urls_offset |-> << >>, p_prev |-> 0, iter |-> 0, found |-> FALSE,
                start |-> -1, fin |-> -1, rc |-> "none", emitted |-> FALSE]
    /\ pu = Idle
    /\ scanner = Initialised
    /\ jobs = << >>

Reverse(q) == [i \in 1..Len(q) |-> q[Len(q) + 1 - i]]

\* the entry of rspamd_url_text_extract: an empty part is left at once
ExtractBegin ==
    /\ fu.pc = "start"
    /\ fu' = [fu EXCEPT !.pc = IF Len(fu.text) = 0 THEN "done" ELSE "scan"]
    /\ UNCHANGED << pu, scanner, jobs >>

\* an iteration of the loop in which rspamd_url_find returns TRUE
ExtractFound ==
    /\ fu.pc = "scan"
    /\ fu.p < Len(fu.text)
    /\ \E f \in { ExtractIter(fu) } : f.found /\ fu' = f
    /\ UNCHANGED << pu, scanner, jobs >>

\* the iteration in which rspamd_url_find returns FALSE: break, then the
\* list of the exceptions is reversed
ExtractBreak ==
    /\ fu.pc = "scan"
    /\ fu.p < Len(fu.text)
    /\ \E f \in { ExtractIter(fu) } :
          ~f.found /\ fu' = [f EXCEPT !.pc = "done", !.urls_offset = Reverse(f.urls_offset)]
    /\ UNCHANGED << pu, scanner, jobs >>

\* the loop ends because p reached end; the list of the exceptions is reversed
ExtractEnd ==
    /\ fu.pc = "scan"
    /\ fu.p >= Len(fu.text)
    /\ fu' = [fu EXCEPT !.pc = "done", !.urls_offset = Reverse(fu.urls_offset)]
    /\ UNCHANGED << pu, scanner, jobs >>

NextFind == ExtractBegin \/ ExtractFound \/ ExtractBreak \/ ExtractEnd

SpecFind == InitFind /\ [][NextFind]_vars

(***************************************************************************)
(* Properties of rspamd_url_text_extract, over SpecFind                    *)
(***************************************************************************)
\* the spans emitted so far, in the order of their emission
EmittedSpans == IF fu.pc = "done" THEN fu.urls_offset ELSE Reverse(fu.urls_offset)

\* the scan state of the loop when it is left, from the state f on; the
\* loop is cut after MaxIter iterations
MaxIter == 8

RECURSIVE ExtractRun(_, _)
ExtractRunNext(g, fuel) == IF g.found THEN ExtractRun(g, fuel - 1) ELSE g

ExtractRun(f, fuel) ==
    IF f.p >= Len(f.text) \/ fuel = 0 THEN f ELSE ExtractRunNext(ExtractIter(f), fuel)

SpanSet(f) == { f.urls_offset[i] : i \in 1..Len(f.urls_offset) }

\* the iteration just made found a candidate that rspamd_url_parse refused
CandidateFailed == fu.pc = "scan" /\ fu.iter > 0 /\ fu.found /\ fu.rc # "URI_ERRNO_OK"

\* C1: every emitted span ends inside the text, and begins at least one
\* byte behind the begin of the span emitted before it
C1_SpansMonotonicWithinText ==
    fu.pc \in { "scan", "done" } =>
        \A i \in 1..Len(EmittedSpans) :
            /\ EmittedSpans[i].pos + EmittedSpans[i].len <= Len(fu.text)
            /\ i > 1 => EmittedSpans[i].pos >= EmittedSpans[i - 1].pos + 1

\* C2: after a candidate failed the parse, nothing was emitted for it, the
\* cursor is one byte behind the end of the candidate, and every span that a
\* scan begun afresh at the cursor emits is emitted by the scan that goes on
C2_FailedCandidateSkipped ==
    CandidateFailed =>
        /\ ~fu.emitted
        /\ fu.p = fu.fin + 1
        /\ SpanSet(ExtractRun([fu EXCEPT !.state = << >>, !.urls_offset = << >>], MaxIter))
              \subseteq SpanSet(ExtractRun(fu, MaxIter))

\* C3: every iteration of the loop of rspamd_url_text_extract that goes on
\* leaves the cursor behind where the iteration found it
C3_CursorAdvances ==
    fu.pc = "scan" /\ fu.iter > 0 => fu.p > fu.p_prev

(***************************************************************************)
(* Properties of the TLD and of the numeric hosts, over Spec               *)
(***************************************************************************)
NumericHost == "RSPAMD_URL_FLAG_NUMERIC" \in pu.res.uri.flags

\* C11: in an accepted record whose host is not numeric the tld begins
\* inside the host and ends where the host ends, and it is the whole host
\* or the byte before it is a dot
C11_TldIsSuffixOfHost ==
    (Accepted /\ ~NumericHost) =>
        /\ pu.res.uri.tld >= pu.res.uri.host
        /\ pu.res.uri.tld + pu.res.uri.tldlen = pu.res.uri.host + pu.res.uri.hostlen
        /\ \/ pu.res.uri.tld = pu.res.uri.host
           \/ At(HostMem(pu.res.uri), pu.res.uri.tld - 1) = "."

\* www.example.com is accepted, and its tld example.com begins behind the
\* first dot of the host
C11_Witness ==
    /\ Accepted /\ ~NumericHost
    /\ HostOf(pu.res.uri) = << "w", "w", "w", ".", "e", "x", "a", "m", "p", "l", "e", ".", "c", "o", "m" >>
    /\ TldOf(pu.res.uri) = << "e", "x", "a", "m", "p", "l", "e", ".", "c", "o", "m" >>
    /\ pu.res.uri.tld = pu.res.uri.host + 4

ObscuredHost == "RSPAMD_URL_FLAG_OBSCURED" \in pu.res.uri.flags

\* C12: in an accepted record the numeric flag comes with tld = host; the
\* obscured flag comes with the numeric flag, and then inet_pton made
\* neither an IPv4 nor an IPv6 address of the text of the host; a host whose
\* text is a dotted quad has the numeric flag and not the obscured flag
C12_NumericFlagsAgree ==
    Accepted =>
        /\ NumericHost => /\ pu.res.uri.tld = pu.res.uri.host
                          /\ pu.res.uri.tldlen = pu.res.uri.hostlen
        /\ ObscuredHost => /\ NumericHost
                           /\ inet_pton4(pu.res.host_text) = << >>
                           /\ inet_pton6(pu.res.host_text) = << >>
        /\ inet_pton4(pu.res.host_text) # << >> => NumericHost /\ ~ObscuredHost

\* 127.0.0.1 is accepted as a numeric host that is not obscured
C12_Witness ==
    /\ Accepted /\ NumericHost /\ ~ObscuredHost
    /\ pu.res.host_text = << "1", "2", "7", ".", "0", ".", "0", ".", "1" >>
    /\ TldOf(pu.res.uri) = << "1", "2", "7", ".", "0", ".", "0", ".", "1" >>

(***************************************************************************)
(* Properties of the worked examples, over SpecFind                        *)
(***************************************************************************)
\* the extraction of the whole text is over
Extracted(text) == fu.pc = "done" /\ fu.text = text

\* C13: the extraction of "visit http://example.com/path?x=1 today" ends
\* with exactly one record, whose scheme is http, host example.com, tld com,
\* path /path and query x=1
C13_VisitTextOneUrl ==
    Extracted(VisitText) =>
        \E r \in fu.records :
            /\ fu.records = { r }
            /\ r.scheme = << "h", "t", "t", "p" >>
            /\ r.host = << "e", "x", "a", "m", "p", "l", "e", ".", "c", "o", "m" >>
            /\ r.tld = << "c", "o", "m" >>
            /\ r.path = << "/", "p", "a", "t", "h" >>
            /\ r.query = << "x", "=", "1" >>

\* C14: the extraction of "mail me at alice@example.co.uk please" from a
\* text that is not HTML ends with exactly one record, whose scheme is
\* mailto, userinfo alice, host example.co.uk and tld co.uk
C14_MailMeTextOneUrl ==
    (Extracted(MailMeText) /\ ~fu.is_html) =>
        \E r \in fu.records :
            /\ fu.records = { r }
            /\ r.scheme = << "m", "a", "i", "l", "t", "o" >>
            /\ r.userinfo = << "a", "l", "i", "c", "e" >>
            /\ r.host = << "e", "x", "a", "m", "p", "l", "e", ".", "c", "o", ".", "u", "k" >>
            /\ r.tld = << "c", "o", ".", "u", "k" >>

\* C15: the extraction of "click www.foo.bar.ck!" ends with exactly one
\* record, whose scheme is http, host foo.bar.ck and tld foo.bar.ck, and
\* whose span ends before the exclamation mark
C15_ClickTextOneUrl ==
    Extracted(ClickText) =>
        \E r \in fu.records :
            /\ fu.records = { r }
            /\ r.scheme = << "h", "t", "t", "p" >>
            /\ r.host = << "f", "o", "o", ".", "b", "a", "r", ".", "c", "k" >>
            /\ r.tld = << "f", "o", "o", ".", "b", "a", "r", ".", "c", "k" >>
            /\ fu.urls_offset = << [pos |-> 6, len |-> 14] >>

\* inet_aton, the reference the numeric notation is compared with.  The
\* value of the digits ds in the given base, as the pair of its high and
\* low 16 bits; << >> when a byte is not a digit of the base or the value
\* does not fit 32 bits
RECURSIVE AtonDigits(_, _, _, _)
AtonDigits(ds, base, hi, lo) ==
    IF ds = << >> THEN << hi, lo >>
    ELSE IF ~(ds[1] \in XDigit /\ HexVal(ds[1]) < base) THEN << >>
    ELSE IF hi * base + (lo * base + HexVal(ds[1])) \div 65536 >= 65536 THEN << >>
    ELSE AtonDigits(Tail(ds), base, hi * base + (lo * base + HexVal(ds[1])) \div 65536,
                    (lo * base + HexVal(ds[1])) % 65536)

\* one component: hexadecimal after 0x, octal after 0, decimal otherwise
AtonPart(c) ==
    IF Len(c) > 2 /\ c[1] = "0" /\ c[2] \in { "x", "X" }
    THEN AtonDigits(SubSeq(c, 3, Len(c)), 16, 0, 0)
    ELSE IF Len(c) > 1 /\ c[1] = "0" THEN AtonDigits(Tail(c), 8, 0, 0)
    ELSE IF Len(c) > 0 THEN AtonDigits(c, 10, 0, 0)
    ELSE << >>

\* the four octets of n components v: each but the last is one octet, and
\* the last fills the octets that remain; << >> when one does not fit
AtonOctets(v, n) ==
    IF \/ n > 4
       \/ \E i \in 1..n : v[i] = << >>
    THEN << >>
    ELSE IF \/ \E i \in 1..(n - 1) : v[i][1] # 0 \/ v[i][2] > 255
            \/ n = 2 /\ v[n][1] > 255
            \/ n = 3 /\ v[n][1] # 0
            \/ n = 4 /\ (v[n][1] # 0 \/ v[n][2] > 255)
    THEN << >>
    ELSE [ i \in 1..4 |->
             IF i < n THEN v[i][2]
             ELSE << v[n][1] \div 256, v[n][1] % 256, v[n][2] \div 256, v[n][2] % 256 >>[i] ]

AtonParts(cs) == AtonOctets([ i \in 1..Len(cs) |-> AtonPart(cs[i]) ], Len(cs))

\* inet_aton (s): the four octets of the address, or << >> when it returns 0
InetAton(s) == AtonParts(Split(s, "."))

\* the host h when the text is http://h/, and << >> otherwise
HttpHost(text) ==
    IF /\ Len(text) > 8
       /\ SubSeq(text, 1, 7) = << "h", "t", "t", "p", ":", "/", "/" >>
       /\ text[Len(text)] = "/"
    THEN SubSeq(text, 8, Len(text) - 1)
    ELSE << >>

\* the text is http://h/ with h something that inet_aton takes and that
\* is not a dotted quad
AtonText(text) ==
    /\ InetAton(HttpHost(text)) # << >>
    /\ inet_pton4(HttpHost(text)) = << >>

\* C16: the extraction of "http://0x7f.1/" ends with exactly one record,
\* whose host is 127.0.0.1 and whose flags are NUMERIC and OBSCURED; and
\* the extraction of any text http://h/ where inet_aton takes h and h is not
\* a dotted quad ends with exactly one record, whose host is the dotted
\* quad of the address inet_aton makes of h, with the same two flags
C16_NumericHostRewritten ==
    /\ Extracted(HexHostText) =>
          \E r \in fu.records :
              /\ fu.records = { r }
              /\ r.host = << "1", "2", "7", ".", "0", ".", "0", ".", "1" >>
              /\ r.flags = { "RSPAMD_URL_FLAG_NUMERIC", "RSPAMD_URL_FLAG_OBSCURED" }
    /\ (fu.pc = "done" /\ AtonText(fu.text)) =>
          \E r \in fu.records :
              /\ fu.records = { r }
              /\ r.host = inet_ntop4(InetAton(HttpHost(fu.text)))
              /\ r.flags = { "RSPAMD_URL_FLAG_NUMERIC", "RSPAMD_URL_FLAG_OBSCURED" }

\* the extraction of http://2130706433/ is over, and the host of its record
\* is 127.0.0.1
C16_Witness ==
    /\ Extracted(DecimalHostText)
    /\ AtonText(fu.text)
    /\ \E r \in fu.records :
          /\ r.host = << "1", "2", "7", ".", "0", ".", "0", ".", "1" >>
          /\ "RSPAMD_URL_FLAG_OBSCURED" \in r.flags

\* the bytes of the text that the span covers
SpanText(text, span) == SubSeq(text, span.pos + 1, span.pos + span.len)

\* the span follows a byte that may open a URL
Enclosed(text, span) == span.pos > 0 /\ is_url_start(text[span.pos])

\* C17: the extraction of "see <http://example.com>." ends with exactly one
\* record, whose span covers http://example.com and nothing else; and no
\* span that follows an opening byte holds an opening or a closing byte
C17_BracketsOutsideSpan ==
    /\ Extracted(BracketText) =>
          /\ fu.urls_offset = << [pos |-> 5, len |-> 18] >>
          /\ SpanText(fu.text, fu.urls_offset[1])
                = << "h", "t", "t", "p", ":", "/", "/", "e", "x", "a", "m", "p", "l", "e", ".", "c", "o", "m" >>
          /\ Cardinality(fu.records) = 1
    /\ \A k \in 1..Len(fu.urls_offset) :
          Enclosed(fu.text, fu.urls_offset[k]) =>
              \A j \in 1..fu.urls_offset[k].len :
                  /\ ~is_url_start(SpanText(fu.text, fu.urls_offset[k])[j])
                  /\ ~is_url_end(SpanText(fu.text, fu.urls_offset[k])[j])

\* the extraction of "see <http://example.com>." is over and its one span
\* ends before the closing bracket
C17_Witness ==
    /\ Extracted(BracketText)
    /\ Len(fu.urls_offset) = 1
    /\ Enclosed(fu.text, fu.urls_offset[1])
    /\ fu.text[fu.urls_offset[1].pos + fu.urls_offset[1].len + 1] = ">"

\* the hosts of the records
RecordHosts == { r.host : r \in fu.records }

TldFindOut(inlen, pos) == [ret |-> 1, begin |-> pos, len |-> inlen - pos]

TldFindMatcher(matcher, textpos, in, out) ==
    IF /\ At(in, textpos - Len(matcher.pattern)) # "." \/ textpos # Len(in)
       /\ textpos # Len(in) - 1
    THEN [ret |-> 0, begin |-> out.begin, len |-> out.len]
    ELSE TldFindOut(Len(in),
                    TldScanBack(in, 0, textpos - Len(matcher.pattern) - 1,
                                IF "URL_FLAG_STAR_MATCH" \in matcher.flags THEN 2 ELSE 1, 0))

rspamd_tld_trie_find_callback(strnum, textpos, in, out) ==
    TldFindMatcher(url_scanner[strnum], textpos, in, out)

\* acism_lookup with rspamd_tld_trie_find_callback over the hits from the
\* j-th on: the scan stops at the first hit the callback accepts
RECURSIVE TldFindLookup(_, _, _, _)
TldFindHit(in, hits, j, r) ==
    IF r.ret # 0 THEN r ELSE TldFindLookup(in, hits, j + 1, r)

TldFindLookup(in, hits, j, out) ==
    IF j > Len(hits) THEN [ret |-> 0, begin |-> out.begin, len |-> out.len]
    ELSE TldFindHit(in, hits, j,
                    rspamd_tld_trie_find_callback(hits[j].strnum, hits[j].textpos, in, out))

rspamd_url_find_tld(in) ==
    TldFindLookup(in, AcHits(in, << >>), 1, [ret |-> 0, begin |-> -1, len |-> 0])

(***************************************************************************)
(* rspamd_url_get_next (pool, start, &pos, &state), with pos the offset    *)
(* the caller's *pos holds, -1 for NULL.  The result is the set of the     *)
(* outcomes: returned tells whether a record is returned and url what it   *)
(* holds, pos is *pos and state is *statep after the call.  When           *)
(* rspamd_url_find returns FALSE the code stores url_end + 1 in *pos       *)
(* without url_end ever being set, so that *pos is any offset.             *)
(***************************************************************************)
GetNextParsed(r, u, pos) ==
    IF /\ u.rc = "URI_ERRNO_OK" /\ u.uri.hostlen > 0
       /\ (u.uri.protocol = "PROTOCOL_MAILTO" => u.uri.userlen > 0)
    THEN { [returned |-> TRUE, url |-> RecordOf(u.uri), pos |-> pos, state |-> r.state] }
    ELSE { [returned |-> FALSE, url |-> RecordOf(ZeroUri), pos |-> r.fin + 1,
            state |-> r.state] }

GetNextStripped(r, url_str, pos) ==
    GetNextParsed(r, rspamd_url_parse(url_str, Len(url_str)), pos)

GetNextFound(start, r, pos) ==
    IF r.found THEN GetNextStripped(r, g_strstrip(r.url_str), pos)
    ELSE { [returned |-> FALSE, url |-> RecordOf(ZeroUri), pos |-> q, state |-> r.state] :
             q \in 0..(Len(start) + 1) }

GetNextFrom(start, p, pos, state) ==
    IF p < Len(start)
    THEN GetNextFound(start, rspamd_url_find(start, p, Len(start) - p, FALSE, state), pos)
    ELSE { [returned |-> FALSE, url |-> RecordOf(ZeroUri), pos |-> pos, state |-> state] }

rspamd_url_get_next(start, pos, state) ==
    GetNextFrom(start, IF pos = -1 THEN 0 ELSE pos, pos, state)

(***************************************************************************)
(* SpecScanner: the calls of rspamd_url_init, and the scans of MaxThreads  *)
(* threads between them.  Each thread has one job, a call of               *)
(* rspamd_url_text_extract (find_urls), rspamd_url_get_next (next_url),    *)
(* rspamd_url_find_tld (find_tld) or rspamd_url_parse (parse_url) on a     *)
(* text of its own; f is the state of the extraction and out what the      *)
(* other calls return.  A scan dereferences url_scanner, so that it runs   *)
(* once the pointer is set; the scans of this model are computed for the   *)
(* matchers of TldFile.                                                    *)
(***************************************************************************)
MaxThreads == 2
MaxCalls == 3

Threads == 1..MaxThreads

\* tld_file = NULL, or a file that cannot be opened: no matcher is appended
NoTldFile == << >>

OtherTldFile == << << "o", "r", "g" >>, << "*", ".", "j", "p" >> >>

TldFiles == { NoTldFile, TldFile, OtherTldFile }

NewScan(text) ==
    [pc |-> "start", text |-> text, trail |-> NUL, is_html |-> FALSE,
     p |-> 0, state |-> << >>, urls |-> { }, emails |-> { }, records |-> { },
     urls_offset |-> << >>, p_prev |-> 0, iter |-> 0, found |-> FALSE,
     start |-> -1, fin |-> -1, rc |-> "none", emitted |-> FALSE]

Jobs == <<
    [op |-> "find_urls", text |-> VisitText],
    [op |-> "find_urls", text |-> MailMeText],
    [op |-> "find_urls", text |-> RedirectText],
    [op |-> "next_url", text |-> ClickText],
    [op |-> "next_url", text |-> << "f", "o", "o", ".", "b", "a", "r", " " >>],
    [op |-> "find_tld", text |-> << "w", "w", "w", ".", "e", "x", "a", "m", "p", "l", "e", ".", "c", "o", ".", "u", "k" >>],
    [op |-> "find_tld", text |-> << "a", ".", "f", "o", "o", ".", "b", "a", "r", ".", "c", "k" >>],
    [op |-> "parse_url", text |-> HexHostText],
    [op |-> "parse_url", text |-> << "h", "t", "t", "p", ":", "/", "/", "e", "x", "a", "m", "p", "l", "e", ".", "c", "o", "m", "/", "p", "a", "t", "h", "?", "x", "=", "1" >>] >>

NewJob(k) ==
    [op |-> Jobs[k].op, text |-> Jobs[k].text, pc |-> "start", f |-> NewScan(Jobs[k].text),
     out |-> [returned |-> FALSE]]

InitScans ==
    /\ scanner = NullScanner
    /\ jobs \in [Threads -> { NewJob(k) : k \in 1..Len(Jobs) }]
    /\ pu = Idle
    /\ fu = Idle

\* a call of rspamd_url_init, with any file
UrlInit ==
    /\ scanner.calls < MaxCalls
    /\ \E tld_file \in TldFiles :
          scanner' = [InitScanner(scanner, tld_file) EXCEPT !.calls = scanner.calls + 1]
    /\ UNCHANGED << pu, fu, jobs >>

\* the scanner is there, with the matchers the scans are computed for
ScannerReady == scanner.allocated /\ scanner.matchers = url_scanner

\* the extraction f after the iteration that left it as g
ExtractStep(g) ==
    IF g.found THEN g ELSE [g EXCEPT !.pc = "done", !.urls_offset = Reverse(g.urls_offset)]

\* one step of rspamd_url_text_extract: the entry, an iteration of the
\* loop, or the end of the loop
ExtractNext(f) ==
    IF f.pc = "start" THEN [f EXCEPT !.pc = IF Len(f.text) = 0 THEN "done" ELSE "scan"]
    ELSE IF f.p >= Len(f.text)
    THEN [f EXCEPT !.pc = "done", !.urls_offset = Reverse(f.urls_offset)]
    ELSE ExtractStep(ExtractIter(f))

\* mutation of ScanStep: the state of the automaton is kept in the scanner
ScanStepStoresState(sc, f) ==
    [sc |-> [sc EXCEPT !.search_trie = @ \cup { << "s", "t", "a", "t", "e" >> \o f.state }],
     f |-> ExtractNext(f)]

\* what a step of the extraction f makes of the scanner sc and of f: the
\* scanner is read, and the state of the automaton is the caller's
ScanStep(sc, f) == [sc |-> sc, f |-> ExtractNext(f)]

\* thread t makes a step of its rspamd_url_text_extract
ThreadExtract(t) ==
    /\ ScannerReady
    /\ jobs[t].op = "find_urls"
    /\ jobs[t].pc # "done"
    /\ \E r \in { ScanStep(scanner, jobs[t].f) } :
          /\ scanner' = r.sc
          /\ jobs' = [jobs EXCEPT ![t].f = r.f,
                                  ![t].pc = IF r.f.pc = "done" THEN "done" ELSE "scan"]
    /\ UNCHANGED << pu, fu >>

\* thread t calls rspamd_url_get_next with *pos = NULL and *statep = 0
ThreadGetNext(t) ==
    /\ ScannerReady
    /\ jobs[t].op = "next_url"
    /\ jobs[t].pc # "done"
    /\ \E o \in rspamd_url_get_next(jobs[t].text, -1, << >>) :
          jobs' = [jobs EXCEPT ![t].out = o, ![t].pc = "done"]
    /\ UNCHANGED << pu, fu, scanner >>

\* thread t calls rspamd_url_find_tld
ThreadFindTld(t) ==
    /\ ScannerReady
    /\ jobs[t].op = "find_tld"
    /\ jobs[t].pc # "done"
    /\ jobs' = [jobs EXCEPT ![t].out = rspamd_url_find_tld(jobs[t].text), ![t].pc = "done"]
    /\ UNCHANGED << pu, fu, scanner >>

\* thread t calls rspamd_url_parse
ThreadParse(t) ==
    /\ ScannerReady
    /\ jobs[t].op = "parse_url"
    /\ jobs[t].pc # "done"
    /\ jobs' = [jobs EXCEPT ![t].out = rspamd_url_parse(jobs[t].text, Len(jobs[t].text)),
                            ![t].pc = "done"]
    /\ UNCHANGED << pu, fu, scanner >>

NextScanner ==
    \/ UrlInit
    \/ \E t \in Threads : ThreadExtract(t)
    \/ \E t \in Threads : ThreadGetNext(t)
    \/ \E t \in Threads : ThreadFindTld(t)
    \/ \E t \in Threads : ThreadParse(t)

SpecScanner == InitScans /\ [][NextScanner]_vars

(***************************************************************************)
(* Properties of the matcher set, over SpecScanner                         *)
(***************************************************************************)
\* C19: once rspamd_url_init has built the scanner, no step, and so no
\* later call of rspamd_url_init with whatever file, changes the matchers,
\* the patterns or the automaton
C19_InitIdempotent ==
    [][scanner.allocated =>
          /\ scanner'.allocated
          /\ scanner'.matchers = scanner.matchers
          /\ scanner'.patterns = scanner.patterns
          /\ scanner'.search_trie = scanner.search_trie]_vars

\* rspamd_url_init was called three times, and the scanner holds the
\* matchers of the file of the first call
C19_Witness ==
    /\ scanner.calls = 3
    /\ scanner.allocated
    /\ scanner.matchers = url_scanner
    /\ scanner.patterns = Patterns(url_scanner)

\* the outcome of the job j is the outcome of its call in a thread that
\* runs alone
RunsAsAlone(j, alone) ==
    /\ j.f.urls = alone.urls
    /\ j.f.emails = alone.emails
    /\ j.f.records = alone.records
    /\ SpanSet(j.f) = SpanSet(alone)

AsAlone(j) ==
    CASE j.op = "find_urls" ->
            RunsAsAlone(j, ExtractRun([NewScan(j.text) EXCEPT !.pc = "scan"], MaxIter))
      [] j.op = "next_url" -> j.out \in rspamd_url_get_next(j.text, -1, << >>)
      [] j.op = "find_tld" -> j.out = rspamd_url_find_tld(j.text)
      [] j.op = "parse_url" -> j.out = rspamd_url_parse(j.text, Len(j.text))

InRaw(uri, off, len) == off >= 0 /\ off + len <= uri.urllen

\* C21: in an accepted record the scheme, and each of userinfo, host, path,
\* query and fragment that is there, lies in the first urllen bytes of
\* string, the host of a numeric record too
C21_ViewsLieInRaw ==
    Accepted =>
        /\ InRaw(pu.res.uri, 0, pu.res.uri.protocollen)
        /\ pu.res.uri.userlen > 0 => InRaw(pu.res.uri, pu.res.uri.user, pu.res.uri.userlen)
        /\ pu.res.uri.hostlen > 0 =>
              ~pu.res.uri.in_pool /\ InRaw(pu.res.uri, pu.res.uri.host, pu.res.uri.hostlen)
        /\ pu.res.uri.datalen > 0 => InRaw(pu.res.uri, pu.res.uri.data, pu.res.uri.datalen)
        /\ pu.res.uri.querylen > 0 => InRaw(pu.res.uri, pu.res.uri.query, pu.res.uri.querylen)
        /\ pu.res.uri.fragmentlen > 0 =>
              InRaw(pu.res.uri, pu.res.uri.fragment, pu.res.uri.fragmentlen)

\* the record rspamd_url_parse fills from what the parser r returned, before
\* any component is decoded
CopiedComponents(uristring, len, r) ==
    UrlComponents(r.u,
                  IF r.end > 0 /\ r.end # len
                  THEN rspamd_strlcpy(uristring, 0, r.end + 1) ELSE uristring,
                  IF r.end > 0 /\ r.end # len THEN r.end ELSE len)

\* the components of the record u0 that are decoded, in the order of their
\* places in the string
DecodedViews(u0) ==
    SelectSeq(<< [off |-> 0, len |-> u0.protocollen, field |-> "UF_SCHEMA"],
                 [off |-> u0.host, len |-> u0.hostlen, field |-> "UF_HOST"],
                 [off |-> u0.data, len |-> u0.datalen, field |-> "UF_PATH"],
                 [off |-> u0.query, len |-> u0.querylen, field |-> "UF_QUERY"],
                 [off |-> u0.fragment, len |-> u0.fragmentlen, field |-> "UF_FRAGMENT"] >>,
              LAMBDA v : v.len > 0)

\* one component decoded, the scheme and the host folded as well
DecodedView(m, v) ==
    IF v.field = "UF_SCHEMA" THEN rspamd_str_lc(rspamd_decode_url(Comp(m, v.off, v.len)))
    ELSE IF v.field = "UF_HOST" THEN rspamd_str_lc_utf8(rspamd_decode_url(Comp(m, v.off, v.len)))
    ELSE rspamd_decode_url(Comp(m, v.off, v.len))

\* the len bytes of m from pos on with each of the views decoded and every
\* byte between two views kept
RECURSIVE DecodedFrom(_, _, _, _)
DecodedFrom(m, len, views, pos) ==
    IF views = << >> THEN Comp(m, pos, len - pos)
    ELSE Comp(m, pos, Head(views).off - pos) \o DecodedView(m, Head(views))
            \o DecodedFrom(m, len, Tail(views), Head(views).off + Head(views).len)

\* the string of the record u0 with each component decoded
DecodedString(u0) == DecodedFrom(u0.string, u0.urllen, DecodedViews(u0), 0)

\* the record uri holds the string of u0 with each component decoded, in
\* urllen bytes
HoldsDecoded(uri, u0) ==
    /\ uri.urllen = Len(DecodedString(u0))
    /\ Comp(uri.string, 0, uri.urllen) = DecodedString(u0)

\* C22: the string of an accepted record is the input with each component
\* decoded in place and the bytes between the components kept, and urllen is
\* the length of the input less the bytes the decoding freed
C22_StringIsDecodedInput ==
    Accepted =>
        HoldsDecoded(pu.res.uri,
                     CopiedComponents(pu.uristring, Len(pu.uristring),
                                      StrictParse(pu.uristring, Len(pu.uristring))))

(***************************************************************************)
(* Properties of the classification of the host, over Spec                 *)
(***************************************************************************)
\* the pattern pat ends at the last byte of the text h
EndsWith(h, pat) ==
    Len(pat) <= Len(h) /\ SubSeq(h, Len(h) - Len(pat) + 1, Len(h)) = pat

\* the lookup of the suffixes accepted a hit on the host
TldAccepted == Parsed /\ pu.res.tld_strnum > 0

\* the matcher of the hit the lookup accepted
TldMatcher == url_scanner[pu.res.tld_strnum]

\* C23: the hit the lookup of the suffixes accepts on a host is a hit of a
\* pattern of the suffix list that ends at the end of the host, or right
\* before a '.' that is the last byte of the host
C23_AcceptedHitIsSuffixAtEnd ==
    TldAccepted =>
        /\ TldMatcher.kind = "tld"
        /\ \/ EndsWith(LowerSeq(pu.res.host_text), TldMatcher.pattern)
           \/ EndsWith(LowerSeq(pu.res.host_text), TldMatcher.pattern \o << "." >>)

\* the accepted hit is one of a pattern of the suffix list that ends at the
\* end of the host, or right before its last '.'
SuffixHitAtEnd ==
    /\ TldAccepted
    /\ TldMatcher.kind = "tld"
    /\ \/ EndsWith(LowerSeq(pu.res.host_text), TldMatcher.pattern)
       \/ EndsWith(LowerSeq(pu.res.host_text), TldMatcher.pattern \o << "." >>)

\* the places of the '.' in the first k bytes of the host h
DotsLeft(h, k) == { i \in 1..k : h[i] = "." }

\* the n-th '.' from the right among the places in dots
RECURSIVE NthFromRight(_, _)
NthFromRight(dots, n) ==
    LET last == CHOOSE i \in dots : \A j \in dots : j <= i
    IN  IF n = 1 THEN last ELSE NthFromRight(dots \ { last }, n - 1)

\* the part of the host h behind the ndots-th '.' to the left of a pattern
\* of patlen bytes at its end, the whole host when there are fewer
LabelsKept(h, patlen, ndots) ==
    IF Cardinality(DotsLeft(h, Len(h) - patlen)) >= ndots
    THEN SubSeq(h, NthFromRight(DotsLeft(h, Len(h) - patlen), ndots) + 1, Len(h))
    ELSE h

\* C24: after an accepted hit of a suffix pattern the tld begins behind the
\* first '.' to the left of the pattern, behind the second for a rule with
\* '*', and ends at the end of the host; it is the whole host when the host
\* has fewer '.' to the left of the pattern
C24_TldKeepsLabels ==
    SuffixHitAtEnd =>
        /\ pu.res.uri.tldlen > 0
        /\ TldOf(pu.res.uri) =
              LabelsKept(HostOf(pu.res.uri), Len(TldMatcher.pattern),
                         IF "URL_FLAG_STAR_MATCH" \in TldMatcher.flags THEN 2 ELSE 1)

\* the bytes of the numeric notations: digits, 'x', the hex letters and '.'
AtonBytes == Digit \cup { "x", "a", "b", "c", "d", "e", "f", "." }

\* rspamd_url_is_ip was called on a host over AtonBytes that inet_pton does
\* not take, so that the loop over its parts decided
NumericLoopDecided ==
    /\ Parsed
    /\ pu.res.ip_tried
    /\ pu.res.host_text # << >>
    /\ \A i \in 1..Len(pu.res.host_text) : pu.res.host_text[i] \in AtonBytes
    /\ inet_pton4(pu.res.host_text) = << >>

\* C25: on a host over digits, 'x', hex letters and '.' the loop over the
\* parts accepts the host exactly when inet_aton accepts it, and the host of
\* the record is then the address inet_aton yields
C25_NumericLoopIsInetAton ==
    NumericLoopDecided =>
        /\ pu.res.ip_ok <=> InetAton(pu.res.host_text) # << >>
        /\ pu.res.ip_ok /\ InetAton(pu.res.host_text) # << >> =>
              HostOf(pu.res.uri) = inet_ntop4(InetAton(pu.res.host_text))

(***************************************************************************)
(* Properties of the matchers and their probes, over SpecFind              *)
(***************************************************************************)
\* the offsets of the '@' of the text
AtPlaces(text) == { i \in 0..(Len(text) - 1) : text[i + 1] = "@" }

\* the span of len bytes at pos covers the offset i
Covers(pos, len, i) == pos <= i /\ i < pos + len

\* the '@' of the text that lie in a span emitted so far, in the scan state f
EmittedAts(f) ==
    { i \in AtPlaces(f.text) :
        \E k \in 1..Len(f.urls_offset) : Covers(f.urls_offset[k].pos, f.urls_offset[k].len, i) }

\* the exceptions of f that begin with mailto:
MailtoSpans(f) ==
    { k \in 1..Len(f.urls_offset) :
        LowerSeq(Comp(f.text, f.urls_offset[k].pos, 7)) = << "m", "a", "i", "l", "t", "o", ":" >> }

\* C26: an iteration of the loop never finds a candidate that covers an '@'
\* lying in a span emitted before, so that no '@' of the text lies in two
\* emitted spans: the address of a mailto: URL is not found once more by the
\* pattern '@'
C26_AddressEmittedOnce ==
    [][fu.pc = "scan" /\ fu'.pc = "scan" /\ fu'.iter = fu.iter + 1 /\ fu'.found =>
          \A i \in EmittedAts(fu) : ~Covers(fu'.start, fu'.fin - fu'.start, i)]_vars

\* a mailto: URL was emitted, and a later iteration found one more candidate
C26_Witness ==
    /\ fu.pc = "scan"
    /\ fu.found
    /\ \E k \in MailtoSpans(fu) : fu.urls_offset[k].pos + fu.urls_offset[k].len <= fu.p_prev
    /\ AtPlaces(fu.text) \cap { i \in 0..(Len(fu.text) - 1) : Covers(fu.start, fu.fin - fu.start, i) } # { }

\* the patterns of the matchers that carry URL_FLAG_NOHTML
NoHtmlPatterns ==
    { url_scanner[i].pattern :
        i \in { j \in 1..Len(url_scanner) : "URL_FLAG_NOHTML" \in url_scanner[j].flags } }

\* a text that holds a bare domain under the suffix rule ne
BareDomainText == << "x", ".", "n", "e", " " >>

\* C27: URL_FLAG_NOHTML is carried by the matchers of 'ftp.' and '@' and by
\* no other, and the bare domain of a text is extracted whether the text is
\* HTML or not
C27_OnlyFtpAndAtSkippedInHtml ==
    /\ NoHtmlPatterns = { << "f", "t", "p", "." >>, << "@" >> }
    /\ Extracted(BareDomainText) =>
          \E r \in fu.records : r.host = << "x", ".", "n", "e" >>

\* bytes that may lie behind the hit of a suffix pattern
FollowBytes == { " ", "\t", "/", "?", ":", ",", ";", ")", "a", "-" }

\* the bytes behind which a candidate can be emitted
FollowAllowed(b) == g_ascii_isspace(b) \/ b \in { "/", "?", ":", "," }

\* the check of the byte b behind the hit of the pattern .ne in x.ne
FollowChecked(b) ==
    TldFollowOk(<< "x", ".", "n", "e", b, NUL >>, [begin |-> 0, end |-> 5], 4)

\* texts that hold one bare domain and a byte, or a '.' and a byte, behind it
FollowTexts ==
    { BareDomainText,
      << "e", "x", "a", "m", "p", "l", "e", ".", "c", "o", ".", "u", "k", "," >>,
      << "b", ".", "c", ".", "c", "k", ".", " " >> }

\* the bare domain of one of the FollowTexts
FollowDomain(text) ==
    IF text[Len(text) - 1] = "." THEN SubSeq(text, 1, Len(text) - 2)
    ELSE SubSeq(text, 1, Len(text) - 1)

\* C28: the hit of a suffix pattern goes on to the probes exactly when the
\* byte behind it is whitespace, '/', '?', ':' or ',', and the bare domain of
\* a text that is not HTML is emitted when such a byte, or a '.' and a
\* whitespace, lies behind it
C28_FollowBytesOfSuffixHit ==
    /\ \A b \in FollowBytes : FollowChecked(b) <=> FollowAllowed(b)
    /\ (fu.pc = "done" /\ ~fu.is_html /\ fu.text \in FollowTexts) =>
          \E r \in fu.records : r.host = FollowDomain(fu.text)

\* bytes that may lie before the hit of a web pattern
BeforeBytes == { " ", "\n", "(", "{", "<", "'", "x", ",", "=", ">", "/" }

\* the bytes behind which a URL may begin
BeforeAllowed(b) == g_ascii_isspace(b) \/ b \in { "(", "{", "<", "'" }

\* url_web_start on the hit of the pattern pat that lies behind the byte b
WebStartBehind(b, pat) ==
    url_web_start(<< b >> \o pat \o << "x", NUL >>,
                  [begin |-> 0, end |-> Len(pat) + 2, last_at |-> -1], 1).ok

\* the exceptions of the scan state f that begin with http:// behind the
\* first byte of the text
HttpSpans(f) ==
    { k \in 1..Len(f.urls_offset) :
        /\ f.urls_offset[k].pos > 0
        /\ LowerSeq(Comp(f.text, f.urls_offset[k].pos, 7)) = << "h", "t", "t", "p", ":", "/", "/" >> }

\* C29: url_web_start lets the hit of a web pattern through exactly when the
\* hit lies at the start of the text or behind whitespace, '(', '{', '<' or
\* a quote, so that no emitted span begins with http:// behind another byte
C29_WebStartNeedsBoundary ==
    /\ \A b \in BeforeBytes :
          \A pat \in { << "h", "t", "t", "p", ":", "/", "/" >>, << "w", "w", "w", "." >> } :
              WebStartBehind(b, pat) <=> BeforeAllowed(b)
    /\ fu.pc = "done" =>
          \A k \in HttpSpans(fu) : BeforeAllowed(At(fu.text, fu.urls_offset[k].pos - 1))

\* texts with one '@' that lies between two ASCII alphanumerics
AtTexts ==
    { << "b", "o", "b", "@", "e", "x", "a", "m", "p", "l", "e", ".", "c", "o", "m" >>,
      << "a", "@", "b", ".", "c", "o", "m" >>,
      << "t", "o", " ", "a", "@", "b", ".", "c", "o", "m", " ", "n", "o", "w" >>,
      << "s", "e", "e", " ", "b", "o", "b", "@", "e" >> }

\* the offset of the '@' of a text that has one
AtOf(text) == CHOOSE i \in AtPlaces(text) : TRUE

\* url_email_end on the hit of the pattern '@' in the text, which is the
\* whole buffer and is not HTML
EmailEndAt(text) ==
    url_email_end(text \o << NUL >>,
                  [begin |-> 0, end |-> Len(text), last_at |-> -1], AtOf(text),
                  [pattern |-> << "@" >>,
                   prefix |-> << "m", "a", "i", "l", "t", "o", ":", "/", "/" >>,
                   m_begin |-> -1])

\* the span s of the text begins and ends with an ASCII alphanumeric
AlnumEnds(text, s) ==
    /\ s.len > 0
    /\ g_ascii_isalnum(At(text, s.pos))
    /\ g_ascii_isalnum(At(text, s.pos + s.len - 1))

\* the exceptions of the scan state f that the pattern '@' emitted: they
\* cover an '@' and do not begin with mailto:
AtSpans(f) ==
    { k \in 1..Len(f.urls_offset) :
        /\ k \notin MailtoSpans(f)
        /\ \E i \in AtPlaces(f.text) : Covers(f.urls_offset[k].pos, f.urls_offset[k].len, i) }

\* C30: url_email_end succeeds on the hit of '@' between two ASCII
\* alphanumerics wherever the address lies in the text, and a span emitted
\* for such a hit begins and ends with an ASCII alphanumeric
C30_EmailEndAtAnyPlace ==
    /\ \A text \in AtTexts :
          /\ EmailEndAt(text).ok
          /\ AlnumEnds(text, [pos |-> EmailEndAt(text).m_begin, len |-> EmailEndAt(text).m_len])
    /\ (fu.pc = "done" /\ ~fu.is_html) =>
          \A k \in AtSpans(fu) : AlnumEnds(fu.text, fu.urls_offset[k])

\* texts that end with a hit of the suffix pattern .ne
TldStartTexts ==
    { << "x", ".", "n", "e" >>,
      << " ", "x", ".", "n", "e" >>,
      << "(", "x", ".", "n", "e" >>,
      << "-", "x", ".", "n", "e" >>,
      << ".", "x", ".", "n", "e" >>,
      << "/", "x", ".", "n", "e" >>,
      << "a", "/", "x", ".", "n", "e" >>,
      << ",", "x", ".", "n", "e" >> }

\* url_tld_start on the hit of .ne at the end of the text, which is the
\* whole buffer
TldStartIn(text) ==
    url_tld_start(text \o << NUL >>, [begin |-> 0, end |-> Len(text), last_at |-> -1],
                  Len(text) - 3)

\* the candidate that begins at offset b of the text and ends with the hit
\* of .ne begins with an ASCII alphanumeric, holds no '/', and lies at the
\* start of the text or behind whitespace or a byte that may precede a URL
TldStartClean(text, b) ==
    /\ g_ascii_isalnum(At(text, b))
    /\ \A i \in b..(Len(text) - 4) : At(text, i) # "/"
    /\ b = 0 \/ g_ascii_isspace(At(text, b - 1)) \/ is_url_start(At(text, b - 1))

\* C31: a candidate url_tld_start produces begins with an ASCII
\* alphanumeric, also at the first byte of the text, has no '/' before the
\* suffix, and lies behind whitespace, a byte that may precede a URL, or
\* the start of the text; so does every span emitted for a bare domain
C31_TldCandidateStartsClean ==
    /\ \A text \in TldStartTexts :
          TldStartIn(text).ok => TldStartClean(text, TldStartIn(text).m_begin)
    /\ Extracted(DashDomainText) =>
          \A k \in 1..Len(fu.urls_offset) : g_ascii_isalnum(At(fu.text, fu.urls_offset[k].pos))

(***************************************************************************)
(* Properties of the two parsers, over Spec                                *)
(***************************************************************************)
\* mailto: URLs for bob at example.com that the grammar
\* mailto:[//][?to=]local-part@domain[?query] describes
MailtoForms ==
    { << "m", "a", "i", "l", "t", "o", ":", "b", "o", "b", "@", "e", "x", "a", "m", "p", "l", "e", ".", "c", "o", "m" >>,
      << "m", "a", "i", "l", "t", "o", ":", "/", "/", "b", "o", "b", "@", "e", "x", "a", "m", "p", "l", "e", ".", "c", "o", "m" >>,
      << "m", "a", "i", "l", "t", "o", ":", "/", "/", "/", "b", "o", "b", "@", "e", "x", "a", "m", "p", "l", "e", ".", "c", "o", "m" >>,
      << "m", "a", "i", "l", "t", "o", ":", "?", "t", "o", "=", "b", "o", "b", "@", "e", "x", "a", "m", "p", "l", "e", ".", "c", "o", "m" >>,
      << "m", "a", "i", "l", "t", "o", ":", "b", "o", "b", "@", "e", "x", "a", "m", "p", "l", "e", ".", "c", "o", "m", "?", "x" >>,
      << "m", "a", "i", "l", "t", "o", ":", "b", "o", "b", "@", "e", "x", "a", "m", "p", "l", "e", ".", "c", "o", "m", "?" >> }

\* r, which rspamd_url_parse returned, is a record for bob at example.com
ForBobAtExample(r) ==
    /\ r.rc = "URI_ERRNO_OK"
    /\ UserOf(r.uri) = << "b", "o", "b" >>
    /\ HostOf(r.uri) = << "e", "x", "a", "m", "p", "l", "e", ".", "c", "o", "m" >>

\* the input is mailto:bob@example.com? in one of its two spellings
MailtoEmptyQuery ==
    /\ Prefixes[pu.parts.prefix] \in { << "m", "a", "i", "l", "t", "o", ":", "b", "o", "b", "@" >>,
                                       << "M", "a", "i", "l", "T", "o", ":", "B", "o", "b", "@" >> }
    /\ pu.parts.host = 1
    /\ pu.parts.port = 1
    /\ Tails[pu.parts.tail] = << "?" >>

\* C32: rspamd_url_parse accepts each of the forms of mailto:, with two or
\* more slashes, with ?to=, with a query and with nothing behind the '?',
\* refuses an empty local part, and a record for an input that ends with
\* the '?' has no query
C32_MailtoGrammarAccepted ==
    /\ \A str \in MailtoForms : ForBobAtExample(rspamd_url_parse(str, Len(str)))
    /\ rspamd_url_parse(<< "m", "a", "i", "l", "t", "o", ":", "@", "e", "x", "a", "m", "p", "l", "e", ".", "c", "o", "m" >>, 19).rc = "URI_ERRNO_BAD_FORMAT"
    /\ (Parsed /\ MailtoEmptyQuery) => Accepted /\ pu.res.uri.querylen = 0

\* the states the loop of rspamd_web_parse goes through from s on, in strict
\* mode, that are in parse_port_password: the offsets of the bytes looked at
RECURSIVE WebLookaheads(_, _, _, _)
WebLookaheads(m, str, last, s) ==
    IF s.jmp # "loop" \/ s.p >= last THEN << >>
    ELSE (IF s.st = "parse_port_password" THEN << s.p >> ELSE << >>)
            \o WebLookaheads(m, str, last, WebStep(m, str, last, TRUE, s))

\* the offsets of the bytes the parse of the input looks at to tell a port
\* from a password
Lookaheads == WebLookaheads(pu.uristring, 0, Len(pu.uristring), WebStart(0))

\* the input is http://u:p@example.com
UserPasswordInput ==
    /\ Prefixes[pu.parts.prefix] = << "h", "t", "t", "p", ":", "/", "/", "u", ":", "p", "@" >>
    /\ pu.parts.host = 1 /\ pu.parts.port = 1 /\ pu.parts.tail = 1

\* C33: the web parser looks at the byte behind the first ':' that follows
\* a prospective host at most once in a parse; an accepted URL has no
\* userinfo when that byte is a digit and has one when it is another byte,
\* so that http://u:p@example.com is accepted with the userinfo u; a URL
\* whose password begins with a digit is refused
C33_ColonLookaheadDecides ==
    (Parsed /\ WebInput) =>
        /\ Len(Lookaheads) <= 1
        /\ (Accepted /\ Lookaheads # << >>) =>
              (g_ascii_isdigit(At(pu.uristring, Lookaheads[1])) <=> pu.res.uri.userlen = 0)
        /\ UserPasswordInput =>
              Accepted /\ UserOf(pu.res.uri) = << "u" >>
                       /\ HostOf(pu.res.uri) = << "e", "x", "a", "m", "p", "l", "e", ".", "c", "o", "m" >>
        /\ rspamd_url_parse(<< "h", "t", "t", "p", ":", "/", "/", "u", ":", "1", "p", "@", "x", ".", "c", "o", "m" >>, 17).rc
              = "URI_ERRNO_BAD_FORMAT"

\* http://u:p@example.com was parsed: the byte p behind the ':' was looked at
C33_Witness ==
    /\ Parsed /\ UserPasswordInput /\ Accepted
    /\ Lookaheads = << 9 >>

\* the input is http://bob@ and a host, with or without a tail
UserOnlyInput ==
    /\ Prefixes[pu.parts.prefix] = << "h", "t", "t", "p", ":", "/", "/", "b", "o", "b", "@" >>
    /\ pu.parts.host = 1 /\ pu.parts.port = 1
    /\ Tails[pu.parts.tail] \in { << >>, << "/" >> }

\* C34: a URL with a userinfo that has no password, http://bob@example.com
\* with or without a '/' behind it, is accepted with the userinfo bob and
\* the host example.com
C34_UserWithoutPasswordAccepted ==
    (Parsed /\ UserOnlyInput) =>
        /\ Accepted
        /\ UserOf(pu.res.uri) = << "b", "o", "b" >>
        /\ HostOf(pu.res.uri) = << "e", "x", "a", "m", "p", "l", "e", ".", "c", "o", "m" >>

(***************************************************************************)
(* Properties of url_scanner_table                                         *)
(***************************************************************************)
\* the 256 bytes
AllBytes == { ByteSeq[i] : i \in 1..256 }

\* a text in which a '^' lies before a bare domain under the suffix rule ma
CaretText == << "a", "^", "b", ".", "m", "a", " " >>

\* C35: a byte is in the class DOMAIN exactly when it is an ASCII
\* alphanumeric, '-', '.', '_', '%' or a byte from 0x80 on, in LWSP exactly
\* when it is HT, LF, VT, FF, CR or SP, and in DOMAIN_END exactly when it is
\* one of / : ? < > " ` { | } ~; so the first search of a^b.ma finds no
\* candidate that begins before the '^'
C35_CharacterClasses ==
    /\ \A b \in AllBytes :
          /\ is_domain(b) <=> (b \in Alnum \cup { "-", ".", "_", "%" } \/ CodeOf(b) >= 128)
          /\ is_lwsp(b) <=> CodeOf(b) \in { 9, 10, 11, 12, 13, 32 }
          /\ (b \in IS_DOMAIN_END) <=> CodeOf(b) \in { 47, 58, 63, 60, 62, 34, 96, 123, 124, 125, 126 }
    /\ (fu.pc # "idle" /\ fu.text = CaretText /\ fu.iter = 1 /\ fu.found) => fu.start > 1

\* the names of the fields of struct http_parser_url
UrlFields == { "UF_SCHEMA", "UF_HOST", "UF_PATH", "UF_QUERY", "UF_FRAGMENT", "UF_USERINFO" }

\* what a parser returned for an input of len bytes at offset 0 lies in the
\* input: the end position and every field that is set
InsideInput(r, len) ==
    /\ 0 <= r.end /\ r.end <= len
    /\ \A f \in UrlFields :
          r.u.fd[f].set => r.u.fd[f].off >= 0 /\ r.u.fd[f].off + r.u.fd[f].len <= len

\* C36: the end position and the fields that rspamd_web_parse and
\* rspamd_mailto_parse report, in strict and in lenient mode, lie in the
\* input, and the record of an accepted input holds no more bytes than the
\* input has
C36_ParsersStayInsideInput ==
    Parsed =>
        /\ InsideInput(StrictParse(pu.uristring, Len(pu.uristring)), Len(pu.uristring))
        /\ InsideInput(rspamd_web_parse(pu.uristring, 0, Len(pu.uristring), FALSE),
                       Len(pu.uristring))
        /\ InsideInput(rspamd_mailto_parse(pu.uristring, 0, Len(pu.uristring), FALSE),
                       Len(pu.uristring))
        /\ Accepted => pu.res.uri.urllen <= Len(pu.uristring)

(***************************************************************************)
(* Properties of the search across calls, over SpecFind                    *)
(***************************************************************************)
\* the candidate starts rspamd_url_trie_callback hands to a start probe for
\* the hits from the j-th on: a hit that is skipped for URL_FLAG_NOHTML or
\* for the byte behind it reaches no probe, and the first hit for which the
\* callback returns 1 ends the search
RECURSIVE ProbedFrom(_, _, _, _)
ProbedNext(m, hits, j, r) ==
    IF r.ret # 0 THEN { } ELSE ProbedFrom(m, r.cb, hits, j + 1)

ProbedHit(m, cb, hits, j, matcher) ==
    (IF \/ "URL_FLAG_NOHTML" \in matcher.flags /\ cb.is_html
        \/ "URL_FLAG_TLD_MATCH" \in matcher.flags /\ ~TldFollowOk(m, cb, hits[j].textpos)
     THEN { }
     ELSE { cb.begin + hits[j].textpos - Len(matcher.pattern) })
        \cup ProbedNext(m, hits, j,
                        rspamd_url_trie_callback(m, cb, hits[j].strnum, hits[j].textpos))

ProbedFrom(m, cb, hits, j) ==
    IF j > Len(hits) THEN { }
    ELSE ProbedHit(m, cb, hits, j, url_scanner[hits[j].strnum])

\* the candidate starts probed in the call of rspamd_url_find that the next
\* iteration of the loop makes in the scan state f
Probed(f) ==
    ProbedFrom(f.text \o << f.trail >>,
               [begin |-> f.p, end |-> Len(f.text), is_html |-> f.is_html, start |-> -1,
                fin |-> -1, has_str |-> FALSE, url_str |-> << >>, last_at |-> -1],
               AcHits(Comp(f.text \o << f.trail >>, f.p, Len(f.text) - f.p), f.state), 1)

\* C37: in every call of rspamd_url_find that rspamd_url_text_extract makes,
\* the start of each candidate handed to a start probe lies in the text of
\* that call
C37_ProbedStartsInsideCall ==
    (fu.pc = "scan" /\ fu.p < Len(fu.text)) =>
        \A b \in Probed(fu) : fu.p <= b /\ b < Len(fu.text)

(***************************************************************************)
(* rspamd_url_find_tld against the classification in rspamd_url_parse      *)
(***************************************************************************)
\* f is what rspamd_url_find_tld returns for the host the classification in
\* rspamd_url_parse saw: found exactly when the classification accepted a
\* hit, and then the same first byte and the same end of the tld
FindTldAgrees(f) ==
    /\ f.ret # 0 <=> pu.res.tld_strnum > 0
    /\ pu.res.tld_strnum > 0 =>
          /\ f.begin = pu.res.uri.tld - pu.res.uri.host
          /\ f.begin + f.len = pu.res.uri.tld - pu.res.uri.host + pu.res.uri.tldlen

\* C38: rspamd_url_find_tld on a host and the lookup of the suffixes in
\* rspamd_url_parse agree on whether the host has a tld, on where it begins
\* and on where it ends, also for a host that ends with a '.'
C38_FindTldAgreesWithParse ==
    (Parsed /\ pu.res.host_text # << >>) => FindTldAgrees(rspamd_url_find_tld(pu.res.host_text))

(***************************************************************************)
(* Properties of rspamd_url_get_next, over SpecScanner                     *)
(***************************************************************************)
\* the jobs of rspamd_url_get_next that have returned; each was called with
\* *pos = NULL on a text that is not empty, so that the search began at 0
NextUrlDone == { t \in Threads : /\ jobs[t].op = "next_url" /\ jobs[t].pc = "done"
                                 /\ jobs[t].text # << >> }

\* C39: a call of rspamd_url_get_next that begins before the end of the text
\* leaves *pos behind the place it began at and at most one byte behind the
\* end of the text, whether it returns a record or NULL
C39_CursorAdvances ==
    \A t \in NextUrlDone : /\ jobs[t].out.pos > 0
                           /\ jobs[t].out.pos <= Len(jobs[t].text) + 1

(***************************************************************************)
(* Properties of the two hash tables, over SpecFind                        *)
(***************************************************************************)
MailtoScheme == << "m", "a", "i", "l", "t", "o" >>

\* the bytes of the key k before its first ':'
KeyScheme(k) ==
    SubSeq(k, 1, (CHOOSE i \in 1..(Len(k) + 1) :
                     /\ i = Len(k) + 1 \/ k[i] = ":"
                     /\ \A j \in 1..(i - 1) : k[j] # ":") - 1)

\* C40: every record of task->emails has the scheme mailto and a user that
\* is not empty, and no record of task->urls has the scheme mailto, also
\* when the record was found in the query of another URL
C40_TablesSplitByScheme ==
    /\ \A k \in fu.emails : KeyScheme(k) = MailtoScheme
    /\ \A k \in fu.urls : KeyScheme(k) # MailtoScheme
    /\ \A r \in fu.records : r.scheme = MailtoScheme => r.userinfo # << >>
====
